---- MODULE Spec2Model ----
(***************************************************************************)
(* Model of the request-arrival path of the BFQ I/O scheduler in           *)
(* block/bfq-iosched.c: the next-request chooser (bfq_choose_req), the     *)
(* service charge (bfq_serv_to_charge), burst detection (bfq_handle_burst, *)
(* bfq_add_to_burst, bfq_reset_burst_list) and the weight-raising          *)
(* decisions taken by bfq_add_request.                                     *)
(*                                                                         *)
(* Time is jiffies, an integer; time_is_before_jiffies(a) is jiffies > a   *)
(* and time_before(a, b) is a < b (no wrap-around within the horizon of    *)
(* the model).  Sectors are far below 2^63, so the unsigned arithmetic of  *)
(* the chooser never wraps and is modelled on the naturals.                *)
(***************************************************************************)
EXTENDS Integers, Sequences, FiniteSets, TLC

VARIABLES
    call,       \* the last call of a pure function: its arguments and result
    jiffies,    \* the tick counter
    bfqd,       \* struct bfq_data: the per-device fields read or written here
    bfqq,       \* struct bfq_queue (with its entity), one per queue
    ev,         \* the locals of the last bfq_add_request call
    served,     \* the number of times a queue has been served
    burst_run,  \* history: the queues that entered the burst in a row
    queue_weights_tree, \* bfqd->queue_weights_tree and its counters
    entity,     \* the entities the weight counters count
    fault,      \* "none", or how the kernel stopped: "BUG_ON", "oops"
    tev,        \* the last call on the weight-counter tree
    sched       \* one service tree of the scheduler and its entities

main_vars == <<call, jiffies, bfqd, bfqq, ev, served, burst_run>>

tree_vars == <<queue_weights_tree, entity, fault, tev>>

vars == <<call, jiffies, bfqd, bfqq, ev, served, burst_run,
          queue_weights_tree, entity, fault, tev, sched>>

(***************************************************************************)
(* Program constants (module-level statics of bfq-iosched.c).              *)
(***************************************************************************)
bfq_back_penalty == 2
bfq_async_charge_factor == 10

(***************************************************************************)
(* Bounds of the model.                                                    *)
(***************************************************************************)
MaxSector == 5          \* request start sectors are drawn from 0..MaxSector
MaxRqSectors == 3       \* request sizes are drawn from 1..MaxRqSectors
NumQueues == 4          \* queues 1..NumQueues
MaxQueued == 2          \* pending requests per queue
Horizon == 2            \* ticks after the start time
NumEntities == 3        \* entities counted in the weight-counter tree
MaxWeight == 2          \* weights of these entities: 1..MaxWeight
MaxPending == 3         \* pending requests of the queue of SpecQueue
MaxServes == 2          \* times a queue is served in one behaviour

(***************************************************************************)
(* Tunables of struct bfq_data, scaled down to a few ticks.  Their order   *)
(* is the one of the defaults: burst_interval < wr_rt_max_time <=          *)
(* wr_min_idle_time < the interactive weight-raising duration.             *)
(***************************************************************************)
bfq_burst_interval == 1
bfq_large_burst_thresh == 3
bfq_wr_min_idle_time == 2
bfq_wr_rt_max_time == 2
bfq_wr_min_inter_arr_async == 1
bfq_wr_coeff == 30
bfq_slice_idle == 1
bfq_requests_within_timer == 2
bfq_max_budget == 2
bfq_timeout == 0          \* the budget timeout, below one tick
RT_prod == 6
peak_rate == 2

(***************************************************************************)
(* Requests.  A request pointer is a record; NULL is NoRq (id 0).  Two     *)
(* pointers are equal iff their ids are equal.                             *)
(***************************************************************************)
NoRq == [id |-> 0, pos |-> 0, sync |-> FALSE, meta |-> FALSE, sectors |-> 0]

\* No pure function has been called.
NoCall ==
    [fn |-> "none", rq1 |-> NoRq, rq2 |-> NoRq, last |-> 0,
     bfqd |-> [bfq_back_max |-> 0, bfq_back_penalty |-> 0],
     sync |-> FALSE, wr_coeff |-> 0, sort_list |-> <<>>, ret |-> NoRq,
     charge |-> 0]

rq_is_sync(rq) == rq.sync
blk_rq_pos(rq) == rq.pos
blk_rq_sectors(rq) == rq.sectors

Max(a, b) == IF a >= b THEN a ELSE b

(***************************************************************************)
(* bfq_choose_req, lines 225-232: the class of the two candidates.         *)
(* Returns 1 or 2 when the sync or metadata flags decide, 0 otherwise.     *)
(***************************************************************************)
choose_by_class_meta_first(rq1, rq2) ==
    IF rq1.meta /\ ~rq2.meta THEN 1
    ELSE IF rq2.meta /\ ~rq1.meta THEN 2
    ELSE IF rq_is_sync(rq1) /\ ~rq_is_sync(rq2) THEN 1
    ELSE IF rq_is_sync(rq2) /\ ~rq_is_sync(rq1) THEN 2
    ELSE 0

choose_by_class(rq1, rq2) ==
    IF rq_is_sync(rq1) /\ ~rq_is_sync(rq2) THEN 1
    ELSE IF rq_is_sync(rq2) /\ ~rq_is_sync(rq1) THEN 2
    ELSE IF rq1.meta /\ ~rq2.meta THEN 1
    ELSE IF rq2.meta /\ ~rq1.meta THEN 2
    ELSE 0

(***************************************************************************)
(* bfq_choose_req, lines 247-259: the distance of a request at sector s    *)
(* from the head at `last`, or the wrap bit.  back_max is in sectors.      *)
(***************************************************************************)
seek_dist_exclusive(s, last, back_max, back_penalty) ==
    IF s >= last THEN [wrap |-> FALSE, d |-> s - last]
    ELSE IF s + back_max > last
         THEN [wrap |-> FALSE, d |-> (last - s) * back_penalty]
    ELSE [wrap |-> TRUE, d |-> 0]

seek_dist(s, last, back_max, back_penalty) ==
    IF s >= last THEN [wrap |-> FALSE, d |-> s - last]
    ELSE IF s + back_max >= last
         THEN [wrap |-> FALSE, d |-> (last - s) * back_penalty]
    ELSE [wrap |-> TRUE, d |-> 0]

(***************************************************************************)
(* bfq_choose_req, lines 267-296: the switch on the wrap mask.             *)
(* Returns 1 for rq1 and 2 for rq2.                                        *)
(***************************************************************************)
choose_by_wrap_nearest(s1, s2, w1, w2) ==
    IF ~w1.wrap /\ ~w2.wrap
    THEN IF w1.d < w2.d THEN 1
         ELSE IF w2.d < w1.d THEN 2
         ELSE IF s1 >= s2 THEN 1 ELSE 2
    ELSE IF ~w1.wrap /\ w2.wrap THEN 1
    ELSE IF w1.wrap /\ ~w2.wrap THEN 2
    ELSE IF s1 >= s2 THEN 1 ELSE 2

choose_by_wrap_tie_to_first(s1, s2, w1, w2) ==
    IF ~w1.wrap /\ ~w2.wrap
    THEN IF w1.d < w2.d THEN 1
         ELSE IF w2.d < w1.d THEN 2
         ELSE 1
    ELSE IF ~w1.wrap /\ w2.wrap THEN 1
    ELSE IF w1.wrap /\ ~w2.wrap THEN 2
    ELSE IF s1 <= s2 THEN 1 ELSE 2

choose_by_wrap(s1, s2, w1, w2) ==
    IF ~w1.wrap /\ ~w2.wrap
    THEN IF w1.d < w2.d THEN 1
         ELSE IF w2.d < w1.d THEN 2
         ELSE IF s1 >= s2 THEN 1 ELSE 2
    ELSE IF ~w1.wrap /\ w2.wrap THEN 1
    ELSE IF w1.wrap /\ ~w2.wrap THEN 2
    ELSE IF s1 <= s2 THEN 1 ELSE 2

(***************************************************************************)
(* bfq_choose_req(bfqd, rq1, rq2, last), lines 209-297.  Of the device d   *)
(* the function reads the tunables bfq_back_max (KiB) and bfq_back_penalty.*)
(***************************************************************************)
bfq_choose_req(d, rq1, rq2, last) ==
    IF rq1.id = 0 \/ rq1.id = rq2.id THEN rq2
    ELSE IF rq2.id = 0 THEN rq1
    ELSE LET c == choose_by_class(rq1, rq2) IN
         IF c = 1 THEN rq1
         ELSE IF c = 2 THEN rq2
         ELSE LET s1 == blk_rq_pos(rq1)
                  s2 == blk_rq_pos(rq2)
                  back_max == d.bfq_back_max * 2
                  w1 == seek_dist(s1, last, back_max, d.bfq_back_penalty)
                  w2 == seek_dist(s2, last, back_max, d.bfq_back_penalty)
              IN IF choose_by_wrap(s1, s2, w1, w2) = 1 THEN rq1 ELSE rq2

(***************************************************************************)
(* bfq_serv_to_charge(rq, bfqq), lines 468-474.                            *)
(***************************************************************************)
bfq_bfqq_sync(b) == b.sync

bfq_serv_to_charge_no_wr_test(rq, b) ==
    blk_rq_sectors(rq) *
        (1 + (IF ~bfq_bfqq_sync(b) THEN bfq_async_charge_factor ELSE 0))

bfq_serv_to_charge(rq, b) ==
    blk_rq_sectors(rq) *
        (1 + (IF ~bfq_bfqq_sync(b) /\ b.wr_coeff = 1
              THEN bfq_async_charge_factor ELSE 0))

(***************************************************************************)
(* The device and its queues.                                              *)
(***************************************************************************)
Queues == 1..NumQueues
StartTime == bfq_wr_min_idle_time + 1   \* a new queue counts as long idle
MaxTime == StartTime + Horizon
bfq_infinity_from_now == MaxTime + 1    \* a time the model never reaches
bfq_back_max == 16 * 1024

time_is_before_jiffies(a) == jiffies > a
time_before(a, b) == a < b

\* The fields of struct bfq_data that bfq_init_queue sets once.
BfqdInit ==
    [low_latency |-> TRUE, bfq_wr_max_softrt_rate |-> 1, bfq_wr_max_time |-> 0,
     bfq_back_max |-> bfq_back_max, bfq_back_penalty |-> bfq_back_penalty,
     bfq_burst_interval |-> bfq_burst_interval,
     bfq_large_burst_thresh |-> bfq_large_burst_thresh,
     bfq_wr_min_idle_time |-> bfq_wr_min_idle_time,
     bfq_wr_rt_max_time |-> bfq_wr_rt_max_time,
     bfq_wr_min_inter_arr_async |-> bfq_wr_min_inter_arr_async,
     bfq_wr_coeff |-> bfq_wr_coeff, bfq_slice_idle |-> bfq_slice_idle,
     bfq_requests_within_timer |-> bfq_requests_within_timer,
     RT_prod |-> RT_prod, peak_rate |-> peak_rate,
     queued |-> 0, last_position |-> 0, in_service_queue |-> 0,
     large_burst |-> FALSE, burst_size |-> 0, last_ins_in_burst |-> 0,
     wr_busy_queues |-> 0]

\* A queue as bfq_init_bfqq leaves it.
BfqqInit ==
    [sync |-> TRUE, bic |-> TRUE, busy |-> FALSE,
     burst_list_node |-> FALSE,          \* hashed in bfqd->burst_list
     in_large_burst |-> FALSE, IO_bound |-> TRUE,
     wr_coeff |-> 1, wr_cur_max_time |-> 0, last_wr_start_finish |-> 0,
     budget_timeout |-> 0, soft_rt_next_start |-> bfq_infinity_from_now,
     last_idle_bklogged |-> 0, service_from_backlogged |-> 0,
     softrt_update |-> FALSE, requests_within_timer |-> 0,
     last_end_request |-> 0,             \* RQ_BIC(rq)->ttime
     queued |-> <<0, 0>>,                \* [rq_is_sync(rq)], 1-based
     sort_list |-> <<>>, next_rq |-> 0,
     max_budget |-> bfq_max_budget, budget |-> 0, prio_changed |-> FALSE]

NoEv ==
    [q |-> 0, activated |-> FALSE, already_in_burst |-> FALSE,
     idle_for_long_time |-> FALSE, burst_path |-> "none",
     in_burst |-> FALSE, soft_rt |-> FALSE, interactive |-> FALSE,
     old_wr_coeff |-> 0, next_rq_changed |-> FALSE, reactivated |-> FALSE]

(***************************************************************************)
(* bfq_wr_duration, lines 518-529.                                         *)
(***************************************************************************)
bfq_wr_duration(d) ==
    IF d.bfq_wr_max_time > 0 THEN d.bfq_wr_max_time
    ELSE d.RT_prod \div d.peak_rate

(***************************************************************************)
(* Burst handling.  The functions take and return the pair S of the device *)
(* and its queues: S.bfqd and S.bfqq.  The burst list is the set of queues *)
(* whose burst_list_node is hashed; its order is never read.               *)
(***************************************************************************)
BurstList(S) == {i \in Queues : S.bfqq[i].burst_list_node}

bfq_mark_bfqq_in_large_burst(S, q) ==
    [S EXCEPT !.bfqq[q].in_large_burst = TRUE]

\* hlist_del_init of every node of the burst list
EmptyBurstList(S) ==
    [S EXCEPT !.bfqq = [i \in Queues |->
                           [S.bfqq[i] EXCEPT !.burst_list_node = FALSE]]]

\* bfq_reset_burst_list that leaves the old burst list in place
bfq_reset_burst_list_keep_list(S, q) ==
    [S EXCEPT !.bfqq[q].burst_list_node = TRUE, !.bfqd.burst_size = 1]

\* bfq_reset_burst_list, lines 532-541
bfq_reset_burst_list(S, q) ==
    LET S1 == EmptyBurstList(S) IN
    [S1 EXCEPT !.bfqq[q].burst_list_node = TRUE, !.bfqd.burst_size = 1]

\* bfq_add_to_burst that flags the joining queue only
bfq_add_to_burst_joining_only(S, q) ==
    LET S1 == [S EXCEPT !.bfqd.burst_size = @ + 1] IN
    IF S1.bfqd.burst_size = S1.bfqd.bfq_large_burst_thresh
    THEN EmptyBurstList([S1 EXCEPT !.bfqd.large_burst = TRUE,
                                   !.bfqq[q].in_large_burst = TRUE])
    ELSE [S1 EXCEPT !.bfqq[q].burst_list_node = TRUE]

\* bfq_add_to_burst that keeps the burst list when the burst gets large
bfq_add_to_burst_keep_list(S, q) ==
    LET S1 == [S EXCEPT !.bfqd.burst_size = @ + 1] IN
    IF S1.bfqd.burst_size = S1.bfqd.bfq_large_burst_thresh
    THEN LET S2 == [S1 EXCEPT !.bfqd.large_burst = TRUE]
         IN [S2 EXCEPT !.bfqq = [i \in Queues |->
                IF i \in BurstList(S2) \/ i = q
                THEN [S2.bfqq[i] EXCEPT !.in_large_burst = TRUE]
                ELSE S2.bfqq[i]]]
    ELSE [S1 EXCEPT !.bfqq[q].burst_list_node = TRUE]

\* bfq_add_to_burst, lines 544-580
bfq_add_to_burst(S, q) ==
    LET S1 == [S EXCEPT !.bfqd.burst_size = @ + 1] IN
    IF S1.bfqd.burst_size = S1.bfqd.bfq_large_burst_thresh
    THEN LET S2 == [S1 EXCEPT !.bfqd.large_burst = TRUE]
             S3 == [S2 EXCEPT !.bfqq = [i \in Queues |->
                        IF i \in BurstList(S2) \/ i = q
                        THEN [S2.bfqq[i] EXCEPT !.in_large_burst = TRUE]
                        ELSE S2.bfqq[i]]]
         IN EmptyBurstList(S3)
    ELSE [S1 EXCEPT !.bfqq[q].burst_list_node = TRUE]

\* The branch bfq_handle_burst takes for q (lines 702, 719, 731, 741), after
\* the clearing of lines 693-696.
BurstPath(S, q, now) ==
    IF S.bfqq[q].burst_list_node \/ S.bfqq[q].in_large_burst THEN "already"
    ELSE IF now > S.bfqd.last_ins_in_burst + S.bfqd.bfq_burst_interval
         THEN "reset"
    ELSE IF S.bfqd.large_burst THEN "mark"
    ELSE "add"

\* bfq_handle_burst that takes a queue idle for a long time out of the
\* count of the burst as well
bfq_handle_burst_size_decremented(S, q, idle_for_long_time, now) ==
    LET S1 == IF idle_for_long_time
              THEN [S EXCEPT !.bfqq[q].burst_list_node = FALSE,
                             !.bfqq[q].in_large_burst = FALSE,
                             !.bfqd.burst_size =
                                 IF /\ @ > 0
                                    /\ \/ S.bfqq[q].burst_list_node
                                       \/ S.bfqq[q].in_large_burst
                                 THEN @ - 1 ELSE @]
              ELSE S
        path == BurstPath(S1, q, now)
    IN  IF path = "already" THEN S1
        ELSE IF path = "reset"
             THEN bfq_reset_burst_list(
                      [S1 EXCEPT !.bfqd.large_burst = FALSE], q)
        ELSE IF path = "mark" THEN bfq_mark_bfqq_in_large_burst(S1, q)
        ELSE bfq_add_to_burst(S1, q)

\* bfq_handle_burst, lines 678-742
bfq_handle_burst(S, q, idle_for_long_time, now) ==
    LET S1 == IF idle_for_long_time
              THEN [S EXCEPT !.bfqq[q].burst_list_node = FALSE,
                             !.bfqq[q].in_large_burst = FALSE]
              ELSE S
        path == BurstPath(S1, q, now)
    IN  IF path = "already" THEN S1
        ELSE IF path = "reset"
             THEN bfq_reset_burst_list(
                      [S1 EXCEPT !.bfqd.large_burst = FALSE], q)
        ELSE IF path = "mark" THEN bfq_mark_bfqq_in_large_burst(S1, q)
        ELSE bfq_add_to_burst(S1, q)

\* lines 828-907 without the test of in_burst at line 843
bfq_update_wr_on_activation_in_burst_kept(b, d, old_wr_coeff, interactive, in_burst, soft_rt, now) ==
    IF old_wr_coeff = 1 /\ (interactive \/ soft_rt) /\ (~b.sync \/ b.bic)
    THEN [b EXCEPT !.wr_coeff = d.bfq_wr_coeff,
                   !.wr_cur_max_time = IF interactive
                                       THEN bfq_wr_duration(d)
                                       ELSE d.bfq_wr_rt_max_time]
    ELSE IF old_wr_coeff > 1
    THEN IF interactive
         THEN [b EXCEPT !.wr_cur_max_time = bfq_wr_duration(d)]
         ELSE IF b.wr_cur_max_time = d.bfq_wr_rt_max_time /\ ~soft_rt
         THEN [b EXCEPT !.wr_coeff = 1]
         ELSE IF time_before(b.last_wr_start_finish + b.wr_cur_max_time,
                             now + d.bfq_wr_rt_max_time) /\ soft_rt
         THEN [b EXCEPT !.last_wr_start_finish = now,
                        !.wr_cur_max_time = d.bfq_wr_rt_max_time]
         ELSE b
    ELSE b

\* lines 828-907 with the interactive duration for every new period
bfq_update_wr_on_activation_one_duration(b, d, old_wr_coeff, interactive, in_burst, soft_rt, now) ==
    IF old_wr_coeff = 1 /\ (interactive \/ soft_rt) /\ (~b.sync \/ b.bic)
    THEN [b EXCEPT !.wr_coeff = d.bfq_wr_coeff,
                   !.wr_cur_max_time = bfq_wr_duration(d)]
    ELSE IF old_wr_coeff > 1
    THEN IF interactive
         THEN [b EXCEPT !.wr_cur_max_time = bfq_wr_duration(d)]
         ELSE IF in_burst \/ (b.wr_cur_max_time = d.bfq_wr_rt_max_time
                              /\ ~soft_rt)
         THEN [b EXCEPT !.wr_coeff = 1]
         ELSE IF time_before(b.last_wr_start_finish + b.wr_cur_max_time,
                             now + d.bfq_wr_rt_max_time) /\ soft_rt
         THEN [b EXCEPT !.last_wr_start_finish = now,
                        !.wr_cur_max_time = d.bfq_wr_rt_max_time]
         ELSE b
    ELSE b

\* lines 828-907 where a soft real-time period is never deemed finished
bfq_update_wr_on_activation_rt_kept(b, d, old_wr_coeff, interactive, in_burst, soft_rt, now) ==
    IF old_wr_coeff = 1 /\ (interactive \/ soft_rt) /\ (~b.sync \/ b.bic)
    THEN [b EXCEPT !.wr_coeff = d.bfq_wr_coeff,
                   !.wr_cur_max_time = IF interactive
                                       THEN bfq_wr_duration(d)
                                       ELSE d.bfq_wr_rt_max_time]
    ELSE IF old_wr_coeff > 1
    THEN IF interactive
         THEN [b EXCEPT !.wr_cur_max_time = bfq_wr_duration(d)]
         ELSE IF in_burst
         THEN [b EXCEPT !.wr_coeff = 1]
         ELSE IF time_before(b.last_wr_start_finish + b.wr_cur_max_time,
                             now + d.bfq_wr_rt_max_time) /\ soft_rt
         THEN [b EXCEPT !.last_wr_start_finish = now,
                        !.wr_cur_max_time = d.bfq_wr_rt_max_time]
         ELSE b
    ELSE b

\* lines 828-907 where a soft real-time queue is recharged whatever time
\* is left of its period
bfq_update_wr_on_activation_always_recharged(b, d, old_wr_coeff, interactive, in_burst, soft_rt, now) ==
    IF old_wr_coeff = 1 /\ (interactive \/ soft_rt) /\ (~b.sync \/ b.bic)
    THEN [b EXCEPT !.wr_coeff = d.bfq_wr_coeff,
                   !.wr_cur_max_time = IF interactive
                                       THEN bfq_wr_duration(d)
                                       ELSE d.bfq_wr_rt_max_time]
    ELSE IF old_wr_coeff > 1
    THEN IF interactive
         THEN [b EXCEPT !.wr_cur_max_time = bfq_wr_duration(d)]
         ELSE IF in_burst \/ (b.wr_cur_max_time = d.bfq_wr_rt_max_time
                              /\ ~soft_rt)
         THEN [b EXCEPT !.wr_coeff = 1]
         ELSE IF soft_rt
         THEN [b EXCEPT !.last_wr_start_finish = now,
                        !.wr_cur_max_time = d.bfq_wr_rt_max_time]
         ELSE b
    ELSE b

\* lines 828-907 where the raising of a queue that is neither interactive
\* nor soft real-time ends whatever the length of its period
bfq_update_wr_on_activation_any_period_ends(b, d, old_wr_coeff, interactive, in_burst, soft_rt, now) ==
    IF old_wr_coeff = 1 /\ (interactive \/ soft_rt) /\ (~b.sync \/ b.bic)
    THEN [b EXCEPT !.wr_coeff = d.bfq_wr_coeff,
                   !.wr_cur_max_time = IF interactive
                                       THEN bfq_wr_duration(d)
                                       ELSE d.bfq_wr_rt_max_time]
    ELSE IF old_wr_coeff > 1
    THEN IF interactive
         THEN [b EXCEPT !.wr_cur_max_time = bfq_wr_duration(d)]
         ELSE IF in_burst \/ ~soft_rt
         THEN [b EXCEPT !.wr_coeff = 1]
         ELSE IF time_before(b.last_wr_start_finish + b.wr_cur_max_time,
                             now + d.bfq_wr_rt_max_time) /\ soft_rt
         THEN [b EXCEPT !.last_wr_start_finish = now,
                        !.wr_cur_max_time = d.bfq_wr_rt_max_time]
         ELSE b
    ELSE b

(***************************************************************************)
(* bfq_add_request, lines 828-907: the start, the end and the recharge of  *)
(* weight raising when queue b (a struct bfq_queue) becomes busy.          *)
(***************************************************************************)
bfq_update_wr_on_activation(b, d, old_wr_coeff, interactive, in_burst, soft_rt, now) ==
    IF old_wr_coeff = 1 /\ (interactive \/ soft_rt) /\ (~b.sync \/ b.bic)
    THEN [b EXCEPT !.wr_coeff = d.bfq_wr_coeff,
                   !.wr_cur_max_time = IF interactive
                                       THEN bfq_wr_duration(d)
                                       ELSE d.bfq_wr_rt_max_time]
    ELSE IF old_wr_coeff > 1
    THEN IF interactive
         THEN [b EXCEPT !.wr_cur_max_time = bfq_wr_duration(d)]
         ELSE IF in_burst \/ (b.wr_cur_max_time = d.bfq_wr_rt_max_time
                              /\ ~soft_rt)
         THEN [b EXCEPT !.wr_coeff = 1]
         ELSE IF time_before(b.last_wr_start_finish + b.wr_cur_max_time,
                             now + d.bfq_wr_rt_max_time) /\ soft_rt
         THEN [b EXCEPT !.last_wr_start_finish = now,
                        !.wr_cur_max_time = d.bfq_wr_rt_max_time]
         ELSE b
    ELSE b

\* lines 804-814 where a late activation leaves the count as it is
bfq_update_io_bound_never_reset(b, d, now) ==
    IF ~b.IO_bound
    THEN IF time_before(now, b.last_end_request + d.bfq_slice_idle)
         THEN LET n == b.requests_within_timer + 1 IN
              [b EXCEPT !.requests_within_timer = n,
                        !.IO_bound = (n >= d.bfq_requests_within_timer)]
         ELSE b
    ELSE b

\* bfq_add_request, lines 804-814: detection of I/O-bound queues
bfq_update_io_bound(b, d, now) ==
    IF ~b.IO_bound
    THEN IF time_before(now, b.last_end_request + d.bfq_slice_idle)
         THEN LET n == b.requests_within_timer + 1 IN
              [b EXCEPT !.requests_within_timer = n,
                        !.IO_bound = (n >= d.bfq_requests_within_timer)]
         ELSE [b EXCEPT !.requests_within_timer = 0]
    ELSE b

\* bfq_add_bfqq_busy (bfq-sched.c): the queue becomes busy and is counted
\* among the weight-raised busy queues when its weight is raised.
bfq_add_bfqq_busy(S, q) ==
    [S EXCEPT !.bfqq[q].busy = TRUE,
              !.bfqd.wr_busy_queues =
                  IF S.bfqq[q].wr_coeff > 1 THEN @ + 1 ELSE @]


(***************************************************************************)
(* The sort list of a queue: the pending requests in sector order.  A      *)
(* request gets the lowest id free in its queue; next_rq holds an id.      *)
(***************************************************************************)
RqIds(list) == {list[k].id : k \in 1..Len(list)}

FreshId(list) ==
    CHOOSE i \in 1..(Len(list) + 1) :
        i \notin RqIds(list) /\ \A j \in 1..(i - 1) : j \in RqIds(list)

RqOf(list, id) ==
    IF id = 0 THEN NoRq
    ELSE CHOOSE r \in {list[k] : k \in 1..Len(list)} : r.id = id

\* elv_rb_add (block/elevator.c): rq goes after the requests that start at
\* or before its sector.
elv_rb_add(list, rq) ==
    LET k == Cardinality({i \in 1..Len(list) : list[i].pos <= rq.pos}) IN
    SubSeq(list, 1, k) \o <<rq>> \o SubSeq(list, k + 1, Len(list))

\* bfq_find_next_rq that takes the first request of the list as the next one
\* without comparing it with last
bfq_find_next_rq_first_unchecked(d, list, last) ==
    LET k == CHOOSE i \in 1..Len(list) : list[i].id = last.id
        prev == IF k > 1 THEN list[k - 1] ELSE NoRq
        next == IF k < Len(list) THEN list[k + 1] ELSE list[1]
    IN  bfq_choose_req(d, next, prev, blk_rq_pos(last))

\* bfq_find_next_rq, lines 443-465.  last is a request of the sort list;
\* rb_next and rb_prev are its neighbours in the list, rb_first is the head
\* of the list.
bfq_find_next_rq(d, list, last) ==
    LET k == CHOOSE i \in 1..Len(list) : list[i].id = last.id
        prev == IF k > 1 THEN list[k - 1] ELSE NoRq
        next == IF k < Len(list) THEN list[k + 1]
                ELSE IF list[1].id # last.id THEN list[1]
                ELSE NoRq
    IN  bfq_choose_req(d, next, prev, blk_rq_pos(last))

\* bfq_updated_next_req without the test of the in-service queue
bfq_updated_next_req_in_service_too(S, q) ==
    LET b == S.bfqq[q]
        next_rq == RqOf(b.sort_list, b.next_rq)
        new_budget == Max(b.max_budget, bfq_serv_to_charge(next_rq, b))
    IN  IF b.next_rq = 0 THEN S
        ELSE IF b.budget # new_budget
             THEN [S EXCEPT !.bfqq[q].budget = new_budget]
        ELSE S

\* bfq_updated_next_req, lines 487-516
bfq_updated_next_req(S, q) ==
    LET b == S.bfqq[q]
        next_rq == RqOf(b.sort_list, b.next_rq)
        new_budget == Max(b.max_budget, bfq_serv_to_charge(next_rq, b))
    IN  IF b.next_rq = 0 THEN S
        ELSE IF q = S.bfqd.in_service_queue THEN S
        ELSE IF b.budget # new_budget
             THEN [S EXCEPT !.bfqq[q].budget = new_budget]
        ELSE S

\* lines 908-909 without the assignment
bfq_mark_prio_changed_never(b, old_wr_coeff) == b

\* bfq_add_request, lines 908-909
bfq_mark_prio_changed(b, old_wr_coeff) ==
    IF old_wr_coeff # b.wr_coeff THEN [b EXCEPT !.prio_changed = TRUE] ELSE b

\* lines 777-794 where every activation of a sync queue moves
\* last_ins_in_burst
bfq_update_burst_always_moved(S, q, idle_for_long_time, now) ==
    IF bfq_bfqq_sync(S.bfqq[q])
    THEN LET H == bfq_handle_burst(S, q, idle_for_long_time, now)
         IN  [H EXCEPT !.bfqd.last_ins_in_burst = now]
    ELSE S

\* lines 777-794 without the test of bfq_bfqq_sync
bfq_update_burst_async_too(S, q, idle_for_long_time, now) ==
    LET already_in_burst ==
            S.bfqq[q].burst_list_node \/ S.bfqq[q].in_large_burst
        H == bfq_handle_burst(S, q, idle_for_long_time, now)
    IN  IF ~already_in_burst
        THEN [H EXCEPT !.bfqd.last_ins_in_burst = now]
        ELSE H

\* bfq_add_request, lines 777-794: the burst handling of an activation
bfq_update_burst(S, q, idle_for_long_time, now) ==
    IF bfq_bfqq_sync(S.bfqq[q])
    THEN LET already_in_burst ==
                 S.bfqq[q].burst_list_node \/ S.bfqq[q].in_large_burst
             H == bfq_handle_burst(S, q, idle_for_long_time, now)
         IN  IF ~already_in_burst
             THEN [H EXCEPT !.bfqd.last_ins_in_burst = now]
             ELSE H
    ELSE S

\* bfq_add_request, lines 767-914: the queue was not busy.
bfq_add_request_idle(S, q, old_wr_coeff, now) ==
    LET d == S.bfqd
        b0 == S.bfqq[q]
        idle_for_long_time ==
            now > b0.budget_timeout + d.bfq_wr_min_idle_time
        already_in_burst == b0.burst_list_node \/ b0.in_large_burst
        path == IF ~bfq_bfqq_sync(b0) THEN "none"
                ELSE BurstPath(
                       IF idle_for_long_time
                       THEN [S EXCEPT !.bfqq[q].burst_list_node = FALSE,
                                      !.bfqq[q].in_large_burst = FALSE]
                       ELSE S, q, now)
        S1 == bfq_update_burst(S, q, idle_for_long_time, now)
        b1 == S1.bfqq[q]
        in_burst == b1.in_large_burst
        soft_rt == /\ d.bfq_wr_max_softrt_rate > 0
                   /\ ~in_burst
                   /\ now > b1.soft_rt_next_start
        interactive == ~in_burst /\ idle_for_long_time
        next_rq == RqOf(b1.sort_list, b1.next_rq)
        b2 == [b1 EXCEPT !.budget =
                   Max(b1.max_budget, bfq_serv_to_charge(next_rq, b1))]
        b3 == bfq_update_io_bound(b2, d, now)
        b4 == IF d.low_latency
              THEN bfq_mark_prio_changed(
                       bfq_update_wr_on_activation(b3, d, old_wr_coeff,
                           interactive, in_burst, soft_rt, now),
                       old_wr_coeff)
              ELSE b3
        b5 == [b4 EXCEPT !.last_idle_bklogged = now,
                         !.service_from_backlogged = 0,
                         !.softrt_update = FALSE]
    IN  [S |-> bfq_add_bfqq_busy([S1 EXCEPT !.bfqq[q] = b5], q),
         ev |-> [NoEv EXCEPT !.q = q, !.activated = TRUE,
                    !.already_in_burst = already_in_burst,
                    !.idle_for_long_time = idle_for_long_time,
                    !.burst_path = path, !.in_burst = in_burst,
                    !.soft_rt = soft_rt, !.interactive = interactive,
                    !.old_wr_coeff = old_wr_coeff]]

\* lines 915-931 without the test of low_latency
bfq_add_request_busy_any_latency(S, q, rq, prev, old_wr_coeff, now) ==
    LET d == S.bfqd
        b == S.bfqq[q]
        S1 == IF /\ old_wr_coeff = 1 /\ ~rq_is_sync(rq)
                 /\ now > b.last_wr_start_finish + d.bfq_wr_min_inter_arr_async
              THEN [S EXCEPT !.bfqq[q].wr_coeff = d.bfq_wr_coeff,
                             !.bfqq[q].wr_cur_max_time = bfq_wr_duration(d),
                             !.bfqd.wr_busy_queues = @ + 1,
                             !.bfqq[q].prio_changed = TRUE]
              ELSE S
        S2 == IF prev # S1.bfqq[q].next_rq
              THEN bfq_updated_next_req(S1, q)
              ELSE S1
    IN  [S |-> S2,
         ev |-> [NoEv EXCEPT !.q = q, !.old_wr_coeff = old_wr_coeff,
                    !.next_rq_changed = (prev # S1.bfqq[q].next_rq),
                    !.reactivated =
                        (S2.bfqq[q].budget # S1.bfqq[q].budget)]]

\* bfq_add_request, lines 915-931: the queue was already busy.
bfq_add_request_busy(S, q, rq, prev, old_wr_coeff, now) ==
    LET d == S.bfqd
        b == S.bfqq[q]
        S1 == IF /\ d.low_latency /\ old_wr_coeff = 1 /\ ~rq_is_sync(rq)
                 /\ now > b.last_wr_start_finish + d.bfq_wr_min_inter_arr_async
              THEN [S EXCEPT !.bfqq[q].wr_coeff = d.bfq_wr_coeff,
                             !.bfqq[q].wr_cur_max_time = bfq_wr_duration(d),
                             !.bfqd.wr_busy_queues = @ + 1,
                             !.bfqq[q].prio_changed = TRUE]
              ELSE S
        S2 == IF prev # S1.bfqq[q].next_rq
              THEN bfq_updated_next_req(S1, q)
              ELSE S1
    IN  [S |-> S2,
         ev |-> [NoEv EXCEPT !.q = q, !.old_wr_coeff = old_wr_coeff,
                    !.next_rq_changed = (prev # S1.bfqq[q].next_rq),
                    !.reactivated =
                        (S2.bfqq[q].budget # S1.bfqq[q].budget)]]

\* The end of bfq_add_request, past the two branches: the start (or the
\* finish) of a weight-raising period is stamped with the current time.
bfq_add_request_tail(S, q, old_wr_coeff, interactive, now) ==
    IF /\ S.bfqd.low_latency
       /\ (old_wr_coeff = 1 \/ S.bfqq[q].wr_coeff = 1 \/ interactive)
    THEN [S EXCEPT !.bfqq[q].last_wr_start_finish = now]
    ELSE S

\* lines 744-931 where the arriving request always becomes next_rq
bfq_add_request_next_is_new(S, q, rq0, now) ==
    LET b == S.bfqq[q]
        old_wr_coeff == b.wr_coeff
        rq == [rq0 EXCEPT !.id = FreshId(b.sort_list)]
        sidx == IF rq_is_sync(rq) THEN 2 ELSE 1
        prev == b.next_rq
        S1 == [S EXCEPT !.bfqq[q].queued[sidx] = @ + 1,
                        !.bfqd.queued = @ + 1,
                        !.bfqq[q].sort_list = elv_rb_add(@, rq),
                        !.bfqq[q].next_rq = rq.id]
        R == IF ~b.busy
             THEN bfq_add_request_idle(S1, q, old_wr_coeff, now)
             ELSE bfq_add_request_busy(S1, q, rq, prev, old_wr_coeff, now)
    IN  [S |-> bfq_add_request_tail(R.S, q, old_wr_coeff, R.ev.interactive,
                                    now),
         ev |-> R.ev]

\* lines 744-931 without the count of line 755
bfq_add_request_total_kept(S, q, rq0, now) ==
    LET b == S.bfqq[q]
        old_wr_coeff == b.wr_coeff
        rq == [rq0 EXCEPT !.id = FreshId(b.sort_list)]
        sidx == IF rq_is_sync(rq) THEN 2 ELSE 1
        prev == b.next_rq
        next_rq == bfq_choose_req(S.bfqd, RqOf(b.sort_list, prev), rq,
                                  S.bfqd.last_position)
        S1 == [S EXCEPT !.bfqq[q].queued[sidx] = @ + 1,
                        !.bfqq[q].sort_list = elv_rb_add(@, rq),
                        !.bfqq[q].next_rq = next_rq.id]
        R == IF ~b.busy
             THEN bfq_add_request_idle(S1, q, old_wr_coeff, now)
             ELSE bfq_add_request_busy(S1, q, rq, prev, old_wr_coeff, now)
    IN  [S |-> bfq_add_request_tail(R.S, q, old_wr_coeff, R.ev.interactive,
                                    now),
         ev |-> R.ev]

\* bfq_add_request, lines 744-931
bfq_add_request(S, q, rq0, now) ==
    LET b == S.bfqq[q]
        old_wr_coeff == b.wr_coeff
        rq == [rq0 EXCEPT !.id = FreshId(b.sort_list)]
        sidx == IF rq_is_sync(rq) THEN 2 ELSE 1
        prev == b.next_rq
        next_rq == bfq_choose_req(S.bfqd, RqOf(b.sort_list, prev), rq,
                                  S.bfqd.last_position)
        S1 == [S EXCEPT !.bfqq[q].queued[sidx] = @ + 1,
                        !.bfqd.queued = @ + 1,
                        !.bfqq[q].sort_list = elv_rb_add(@, rq),
                        !.bfqq[q].next_rq = next_rq.id]
        R == IF ~b.busy
             THEN bfq_add_request_idle(S1, q, old_wr_coeff, now)
             ELSE bfq_add_request_busy(S1, q, rq, prev, old_wr_coeff, now)
    IN  [S |-> bfq_add_request_tail(R.S, q, old_wr_coeff, R.ev.interactive,
                                    now),
         ev |-> R.ev]

(***************************************************************************)
(* The service tree of the B-WF2Q+ scheduler.  The scheduler is code of    *)
(* bfq-sched.c; it is written here from sections 4.1 and 4.4 of the        *)
(* specification.  Three entities share one tree.  Timestamps are kept     *)
(* relative to the virtual time of the tree: the virtual time only enters  *)
(* comparisons with and differences between timestamps, so advancing it by *)
(* d is the same as moving every timestamp back by d.  One unit of service *)
(* (a sector) for weight 1 is VTimeUnit units of virtual time, a multiple  *)
(* of every weight and of every sum of weights in use, so that no division *)
(* truncates.                                                              *)
(***************************************************************************)
SchedQueues == {1, 2, 3}

\* the two queues whose service is compared
SchedPair == {1, 2}

VTimeUnit == 12

NoService == [q \in SchedPair |-> 0]

\* a scheduler that is not in use
NoSched ==
    [weight |-> <<1, 1, 1>>, budget |-> <<1, 1, 1>>, active |-> {},
     start |-> <<0, 0, 0>>, finish |-> <<-1, -1, -1>>,
     in_service |-> 0, service |-> 0,
     got |-> NoService, met |-> {}, synced |-> FALSE]

(***************************************************************************)
(* The weight-counter tree, lines 302-441.  A tree is a leaf or a node     *)
(* with the id of its counter and two subtrees; the counters are kept by   *)
(* id, the live ones being those kzalloc returned and kfree has not freed. *)
(***************************************************************************)
Entities == 1..NumEntities
Weights == 1..MaxWeight
CounterIds == 1..NumEntities

Leaf == [node |-> 0]

FreeCounter == [weight |-> 0, num_active |-> 0, live |-> FALSE]

NoTev == [op |-> "none", e |-> 0, held |-> FALSE, alloc_failed |-> FALSE]

\* the tree of a device without busy queues; every entity has some weight
TreeInit ==
    /\ queue_weights_tree =
          [rb_node |-> Leaf, counter |-> [c \in CounterIds |-> FreeCounter]]
    /\ entity = [e \in Entities |-> [weight |-> 1, weight_counter |-> 0]]
    /\ fault = "none"
    /\ tev = NoTev

RECURSIVE TreeNodes(_)
TreeNodes(t) ==
    IF t.node = 0 THEN {}
    ELSE {t.node} \cup TreeNodes(t.rb_left) \cup TreeNodes(t.rb_right)

\* the walk of lines 385-400: the counter of weight w, or 0
RECURSIVE FindCounter(_, _, _)
FindCounter(t, C, w) ==
    IF t.node = 0 THEN 0
    ELSE IF w = C[t.node].weight THEN t.node
    ELSE IF w < C[t.node].weight THEN FindCounter(t.rb_left, C, w)
    ELSE FindCounter(t.rb_right, C, w)

\* rb_link_node at the place where the walk of lines 385-400 ended
RECURSIVE rb_link_node(_, _, _, _)
rb_link_node(t, C, id, w) ==
    IF t.node = 0 THEN [node |-> id, rb_left |-> Leaf, rb_right |-> Leaf]
    ELSE IF w < C[t.node].weight
    THEN [t EXCEPT !.rb_left = rb_link_node(@, C, id, w)]
    ELSE [t EXCEPT !.rb_right = rb_link_node(@, C, id, w)]

RECURSIVE rb_first(_)
rb_first(t) == IF t.rb_left.node = 0 THEN t.node ELSE rb_first(t.rb_left)

\* rb_erase: the node of counter id leaves the tree
RECURSIVE rb_erase(_, _)
rb_erase(t, id) ==
    IF t.node = 0 THEN t
    ELSE IF t.node # id
    THEN [t EXCEPT !.rb_left = rb_erase(@, id), !.rb_right = rb_erase(@, id)]
    ELSE IF t.rb_left.node = 0 THEN t.rb_right
    ELSE IF t.rb_right.node = 0 THEN t.rb_left
    ELSE LET m == rb_first(t.rb_right) IN
         [node |-> m, rb_left |-> t.rb_left,
          rb_right |-> rb_erase(t.rb_right, m)]

RB_EMPTY_ROOT(T) == T.rb_node.node = 0

\* kzalloc: a counter that is not live, zeroed
kzalloc(C) == CHOOSE c \in CounterIds : ~C[c].live /\
                  \A o \in CounterIds : o < c => C[o].live

\* bfq_differentiated_weights with the left child alone
bfq_differentiated_weights_left_only(T) ==
    ~RB_EMPTY_ROOT(T) /\ T.rb_node.rb_left.node # 0

\* bfq_differentiated_weights, lines 302-318 (no group scheduling)
bfq_differentiated_weights(T) ==
    /\ ~RB_EMPTY_ROOT(T)
    /\ \/ T.rb_node.rb_left.node # 0
       \/ T.rb_node.rb_right.node # 0

\* bfq_symmetric_scenario, lines 345-352 (no group scheduling)
bfq_symmetric_scenario(T) == ~bfq_differentiated_weights(T)

\* bfq_weights_tree_add without the test of line 381
bfq_weights_tree_add_again(W, e, alloc_ok) ==
    LET T == W.tree
        E == W.entity
        found == FindCounter(T.rb_node, T.counter, E[e].weight)
    IN  IF found # 0
        THEN [W EXCEPT !.entity[e].weight_counter = found,
                       !.tree.counter[found].num_active = @ + 1]
        ELSE IF ~alloc_ok
        THEN [W EXCEPT !.entity[e].weight_counter = 0, !.fault = "oops"]
        ELSE LET c == kzalloc(T.counter) IN
             [W EXCEPT !.entity[e].weight_counter = c,
                       !.tree.counter[c] = [weight |-> E[e].weight,
                                            num_active |-> 1,
                                            live |-> TRUE],
                       !.tree.rb_node =
                           rb_link_node(@, T.counter, c, E[e].weight)]

\* bfq_weights_tree_add, lines 367-413.  W holds the tree, the entities and
\* the fault; alloc_ok tells whether kzalloc returns a counter.  With NULL
\* from kzalloc, line 406 writes through the NULL pointer.
bfq_weights_tree_add(W, e, alloc_ok) ==
    LET T == W.tree
        E == W.entity
        found == FindCounter(T.rb_node, T.counter, E[e].weight)
    IN  IF E[e].weight_counter # 0 THEN W
        ELSE IF found # 0
        THEN [W EXCEPT !.entity[e].weight_counter = found,
                       !.tree.counter[found].num_active = @ + 1]
        ELSE IF ~alloc_ok
        THEN [W EXCEPT !.entity[e].weight_counter = 0, !.fault = "oops"]
        ELSE LET c == kzalloc(T.counter) IN
             [W EXCEPT !.entity[e].weight_counter = c,
                       !.tree.counter[c] = [weight |-> E[e].weight,
                                            num_active |-> 1,
                                            live |-> TRUE],
                       !.tree.rb_node =
                           rb_link_node(@, T.counter, c, E[e].weight)]

\* bfq_weights_tree_remove that keeps a counter without entities
bfq_weights_tree_remove_keep_node(W, e) ==
    LET T == W.tree
        E == W.entity
        c == E[e].weight_counter
    IN  IF c = 0 THEN W
        ELSE IF \/ RB_EMPTY_ROOT(T)
                \/ T.counter[c].weight # E[e].weight
                \/ T.counter[c].num_active = 0
        THEN [W EXCEPT !.fault = "BUG_ON"]
        ELSE [W EXCEPT !.tree.counter[c].num_active = @ - 1,
                       !.entity[e].weight_counter = 0]

\* bfq_weights_tree_remove, lines 421-441
bfq_weights_tree_remove(W, e) ==
    LET T == W.tree
        E == W.entity
        c == E[e].weight_counter
    IN  IF c = 0 THEN W
        ELSE IF \/ RB_EMPTY_ROOT(T)
                \/ T.counter[c].weight # E[e].weight
                \/ T.counter[c].num_active = 0
        THEN [W EXCEPT !.fault = "BUG_ON"]
        ELSE IF T.counter[c].num_active - 1 > 0
        THEN [W EXCEPT !.tree.counter[c].num_active = @ - 1,
                       !.entity[e].weight_counter = 0]
        ELSE [W EXCEPT !.tree.counter[c] = FreeCounter,
                       !.tree.rb_node = rb_erase(@, c),
                       !.entity[e].weight_counter = 0]

TreeState == [tree |-> queue_weights_tree, entity |-> entity, fault |-> fault]

\* An entity is counted: bfq_weights_tree_add(bfqd, entity, root).  The
\* allocation of a counter may fail.
WeightsTreeAdd ==
    /\ fault = "none"
    /\ \E e \in Entities, alloc_ok \in BOOLEAN :
          LET W == bfq_weights_tree_add(TreeState, e, alloc_ok)
              needs_alloc ==
                  /\ entity[e].weight_counter = 0
                  /\ FindCounter(queue_weights_tree.rb_node,
                                 queue_weights_tree.counter,
                                 entity[e].weight) = 0
          IN  /\ alloc_ok \/ needs_alloc
              /\ queue_weights_tree' = W.tree
              /\ entity' = W.entity
              /\ fault' = W.fault
              /\ tev' = [op |-> "add", e |-> e,
                         held |-> entity[e].weight_counter # 0,
                         alloc_failed |-> ~alloc_ok]
    /\ UNCHANGED <<main_vars, sched>>

\* An entity is no longer counted: bfq_weights_tree_remove(bfqd, entity,
\* root).
WeightsTreeRemove ==
    /\ fault = "none"
    /\ \E e \in Entities :
          LET W == bfq_weights_tree_remove(TreeState, e) IN
          /\ queue_weights_tree' = W.tree
          /\ entity' = W.entity
          /\ fault' = W.fault
          /\ tev' = [op |-> "remove", e |-> e,
                     held |-> entity[e].weight_counter # 0,
                     alloc_failed |-> FALSE]
    /\ UNCHANGED <<main_vars, sched>>

\* The weight of an entity changes; the scheduler takes the entity out of
\* the tree before and counts it again afterwards.
SetWeight ==
    /\ fault = "none"
    /\ \E e \in Entities, w \in Weights :
          /\ entity[e].weight_counter = 0
          /\ entity[e].weight # w
          /\ entity' = [entity EXCEPT ![e].weight = w]
          /\ tev' = [op |-> "weight", e |-> e, held |-> FALSE,
                     alloc_failed |-> FALSE]
    /\ UNCHANGED <<queue_weights_tree, fault>>
    /\ UNCHANGED <<main_vars, sched>>

TreeSpecInit ==
    /\ call = NoCall
    /\ jiffies = StartTime
    /\ bfqd = BfqdInit
    /\ bfqq = [q \in Queues |-> BfqqInit]
    /\ ev = NoEv
    /\ served = 0
    /\ burst_run = {}
    /\ TreeInit
    /\ sched = NoSched

TreeNext == WeightsTreeAdd \/ WeightsTreeRemove \/ SetWeight

SpecTree == TreeSpecInit /\ [][TreeNext]_vars

(***************************************************************************)
(* The operations of the service tree.                                     *)
(***************************************************************************)
\* weights and budgets of the three entities
SchedConfigs ==
    { [weight |-> <<1, 1, 1>>, budget |-> <<2, 2, 2>>],
      [weight |-> <<2, 1, 1>>, budget |-> <<1, 2, 2>>],
      [weight |-> <<1, 1, 2>>, budget |-> <<1, 2, 3>>] }

SchedStart(c) == [NoSched EXCEPT !.weight = c.weight, !.budget = c.budget]

\* the virtual time that service s is worth at weight w
vtime_delta(s, w) == (s * VTimeUnit) \div w

RECURSIVE SumOfWeights(_, _)
SumOfWeights(s, Q) ==
    IF Q = {} THEN 0
    ELSE LET q == CHOOSE x \in Q : TRUE
         IN  s.weight[q] + SumOfWeights(s, Q \ {q})

\* the sum of the weights of the backlogged entities
wsum(s) == SumOfWeights(s, s.active)

\* the entities waiting in the active tree
ActiveTree(s) == s.active \ {s.in_service}

BothBacklogged(s) == SchedPair \subseteq s.active

\* The virtual time moves on by d.  An idle entity whose retained finish
\* time falls behind the virtual time is dropped from the idle tree.
advance_vtime(s, d) ==
    [s EXCEPT
        !.start = [q \in SchedQueues |->
                      IF q \in s.active THEN s.start[q] - d ELSE 0],
        !.finish = [q \in SchedQueues |->
                      IF q \in s.active THEN s.finish[q] - d
                      ELSE IF s.finish[q] - d < 0 THEN -1
                      ELSE s.finish[q] - d]]

\* finish = start + budget / weight
calc_finish(s, q) ==
    [s EXCEPT !.finish[q] = s.start[q] + vtime_delta(s.budget[q], s.weight[q])]

\* one of the two compared queues starts a backlogged period: the service
\* measured so far is void
pair_restarts(s, q) ==
    IF q \in SchedPair
    THEN [s EXCEPT !.got = NoService, !.met = {}, !.synced = FALSE]
    ELSE s

\* An entity becomes backlogged: start = max(retained finish, V).
activate_entity(s, q) ==
    LET e == s.finish[q]
        s1 == [s EXCEPT !.active = @ \cup {q},
                        !.start[q] = Max(e, 0)]
    IN  pair_restarts(calc_finish(s1, q), q)

\* first_active_entity without the eligibility and finish-time order
first_active_entity_any(s) == ActiveTree(s)

\* The eligible entities (start <= V) with the smallest finish time.
first_active_entity(s) ==
    LET eligible == {q \in ActiveTree(s) : s.start[q] <= 0}
    IN  {q \in eligible : \A p \in eligible : s.finish[q] <= s.finish[p]}

\* When no waiting entity is eligible the virtual time jumps to the
\* smallest start time (the "+" of B-WF2Q+).
update_vtime(s) ==
    LET starts == {s.start[q] : q \in ActiveTree(s)}
        min_start == CHOOSE m \in starts : \A x \in starts : m <= x
    IN  IF min_start > 0 THEN advance_vtime(s, min_start) ELSE s

\* q is put in service
set_in_service(s, q) ==
    [s EXCEPT !.in_service = q, !.service = 0,
              !.met = IF BothBacklogged(s) /\ q \in SchedPair
                      THEN @ \cup {q} ELSE @]

\* one sector is served to the entity in service: V advances by
\* 1 / (sum of the active weights)
entity_served(s) ==
    LET q == s.in_service
        s1 == advance_vtime(s, vtime_delta(1, wsum(s)))
    IN  [s1 EXCEPT !.service = @ + 1,
                   !.got = IF BothBacklogged(s) /\ q \in SchedPair
                           THEN [@ EXCEPT ![q] = @ + 1] ELSE @]

\* The served entity is still backlogged at the end of its budget and
\* goes back into the active tree; its next budget starts where the
\* charged one finished.
requeue_entity(s, q) ==
    calc_finish([s EXCEPT !.in_service = 0, !.service = 0,
                          !.start[q] = s.finish[q]], q)

\* The served entity has emptied and goes to the idle tree with its
\* finish time retained.
deactivate_entity(s, q) ==
    [s EXCEPT !.in_service = 0, !.service = 0,
              !.active = @ \ {q}, !.start[q] = 0]

MaxInterval == 6

\* A queue gets its first request.
SchedActivate ==
    /\ \E q \in SchedQueues :
          /\ q \notin sched.active
          /\ sched' = activate_entity(sched, q)
    /\ UNCHANGED <<main_vars, tree_vars>>

\* The dispatcher asks for the next queue to serve.
SchedSelect ==
    /\ sched.in_service = 0
    /\ ActiveTree(sched) # {}
    /\ LET s1 == update_vtime(sched) IN
       \E q \in first_active_entity(s1) : sched' = set_in_service(s1, q)
    /\ UNCHANGED <<main_vars, tree_vars>>

\* A sector of the queue in service completes.
SchedServe ==
    /\ sched.in_service # 0
    /\ sched.service < sched.budget[sched.in_service]
    /\ \A q \in SchedPair : sched.got[q] < MaxInterval
    /\ sched' = entity_served(sched)
    /\ UNCHANGED <<main_vars, tree_vars>>

\* The budget of the queue in service is exhausted.  The two compared
\* queues stay backlogged; the third queue may have emptied.
SchedExpire ==
    /\ sched.in_service # 0
    /\ sched.service = sched.budget[sched.in_service]
    /\ LET q == sched.in_service IN
          \/ sched' = requeue_entity(sched, q)
          \/ /\ q \notin SchedPair
             /\ sched' = deactivate_entity(sched, q)
    /\ UNCHANGED <<main_vars, tree_vars>>

\* An interval of service begins while both compared queues are
\* backlogged; it is a synchronised one when each of the two has been
\* selected at least once since both are backlogged.
IntervalStart ==
    /\ BothBacklogged(sched)
    /\ sched.got # NoService \/ sched.synced # (sched.met = SchedPair)
    /\ sched' = [sched EXCEPT !.got = NoService,
                              !.synced = (sched.met = SchedPair)]
    /\ UNCHANGED <<main_vars, tree_vars>>

SchedInit ==
    /\ call = NoCall
    /\ jiffies = StartTime
    /\ bfqd = BfqdInit
    /\ bfqq = [q \in Queues |-> BfqqInit]
    /\ ev = NoEv
    /\ served = 0
    /\ burst_run = {}
    /\ TreeInit
    /\ \E c \in SchedConfigs : sched = SchedStart(c)

SchedNext ==
    SchedActivate \/ SchedSelect \/ SchedServe \/ SchedExpire
        \/ IntervalStart

SpecSched == SchedInit /\ [][SchedNext]_vars

(***************************************************************************)
(* The actions.                                                            *)
(***************************************************************************)
MainSectors == {1}

\* The queue that is served and takes further requests while busy; the
\* other queues become busy and stay so.
ServedQueues == {1}

\* The requests that arrive for queue q: of the queue's own kind.
ArrivalRqs(q) ==
    {[id |-> 0, pos |-> p, sync |-> bfqq[q].sync, meta |-> FALSE,
      sectors |-> 1] : p \in MainSectors}

\* The history variable burst_run after the call with locals e for queue q:
\* the sync queues that, neither listed nor flagged, were activated one
\* after the other, each no later than bfq_burst_interval after the last
\* insertion in the burst (the first one may have started the burst).  A
\* queue that re-enters the burst after a long idle time ends the run.
BurstRun(q, e) ==
    IF ~e.activated \/ e.burst_path \in {"none", "already"} THEN burst_run
    ELSE IF e.already_in_burst THEN {}
    ELSE IF e.burst_path = "reset" THEN {q}
    ELSE burst_run \cup {q}

\* A request arrives for queue q: bfq_add_request(rq).  The queues that are
\* never served are interchangeable, so they get their request in the order
\* of their numbers.
AddRequest ==
    \E q \in Queues :
        /\ Len(bfqq[q].sort_list) <
               (IF q \in ServedQueues THEN MaxQueued ELSE 1)
        /\ (q \notin ServedQueues /\ q - 1 \in Queues \ ServedQueues)
               => bfqq[q - 1].busy
        /\ \E rq \in ArrivalRqs(q) :
              LET R == bfq_add_request([bfqd |-> bfqd, bfqq |-> bfqq], q, rq,
                                       jiffies)
              IN  /\ bfqd' = R.S.bfqd
                  /\ bfqq' = R.S.bfqq
                  /\ ev' = R.ev
                  /\ burst_run' = BurstRun(q, R.ev)
        /\ UNCHANGED <<jiffies, call, served>>
        /\ UNCHANGED <<tree_vars, sched>>

\* A timer tick.
Tick ==
    /\ jiffies < MaxTime
    /\ jiffies' = jiffies + 1
    /\ ev' = NoEv
    /\ UNCHANGED <<bfqd, bfqq, call, served, burst_run>>
    /\ UNCHANGED <<tree_vars, sched>>

\* Queue q is put in service (its budget timeout starts), its requests are
\* dispatched and completed, and it expires: it is idle again.  Its weight
\* raising ends when the period is over or the queue is in a large burst.
Serve ==
    \E q \in Queues :
        /\ served < MaxServes
        /\ q \in ServedQueues
        /\ bfqq[q].busy
        /\ bfqd.in_service_queue = 0
        /\ LET b == bfqq[q]
               last == b.sort_list[Len(b.sort_list)]
               end_wr ==
                   /\ b.wr_coeff > 1
                   /\ \/ b.in_large_burst
                      \/ jiffies > b.last_wr_start_finish + b.wr_cur_max_time
           IN  /\ \E next_start \in {jiffies + 1, bfq_infinity_from_now} :
                    bfqq' = [bfqq EXCEPT ![q] =
                        [b EXCEPT !.sort_list = <<>>, !.next_rq = 0,
                                  !.queued = <<0, 0>>, !.busy = FALSE,
                                  !.budget_timeout = jiffies + bfq_timeout,
                                  !.soft_rt_next_start = next_start,
                                  !.last_end_request = jiffies,
                                  !.prio_changed = FALSE,
                                  !.wr_coeff = IF end_wr THEN 1 ELSE @,
                                  !.last_wr_start_finish =
                                      IF end_wr THEN jiffies ELSE @]]
               /\ bfqd' = [bfqd EXCEPT
                              !.queued = @ - Len(b.sort_list),
                              !.last_position = last.pos + last.sectors,
                              !.wr_busy_queues =
                                  IF b.wr_coeff > 1 THEN @ - 1 ELSE @]
        /\ served' = served + 1
        /\ ev' = NoEv
        /\ UNCHANGED <<jiffies, call, burst_run>>
        /\ UNCHANGED <<tree_vars, sched>>

\* The configurations the device starts in: low_latency, the soft-rt rate
\* limit, bfq_wr_max_time (0: the duration is computed from the peak rate),
\* bfq_wr_min_idle_time, whether queue 1 is sync and linked to its io
\* context, whether queue 1 is new or has just been served without weight
\* raising, and whether queue 1 is flagged IO_bound.  The other queues are
\* new sync queues linked to their io context.
Configs ==
    {<<TRUE, 1, 0, bfq_wr_min_idle_time, TRUE, TRUE, FALSE, TRUE>>,
     <<TRUE, 1, 0, bfq_wr_min_idle_time, TRUE, TRUE, TRUE, TRUE>>,
     <<TRUE, 1, 0, bfq_wr_min_idle_time, TRUE, FALSE, FALSE, TRUE>>,
     <<TRUE, 1, 0, bfq_wr_min_idle_time, FALSE, TRUE, FALSE, TRUE>>,
     <<TRUE, 0, 0, bfq_wr_min_idle_time, TRUE, TRUE, FALSE, TRUE>>,
     <<TRUE, 1, 0, bfq_burst_interval, TRUE, TRUE, FALSE, TRUE>>,
     <<TRUE, 1, bfq_wr_rt_max_time, bfq_wr_min_idle_time, TRUE, TRUE, FALSE, TRUE>>,
     <<TRUE, 1, bfq_wr_rt_max_time, bfq_wr_min_idle_time, FALSE, TRUE, FALSE, TRUE>>,
     <<FALSE, 1, 0, bfq_wr_min_idle_time, TRUE, TRUE, FALSE, TRUE>>,
     <<FALSE, 1, 0, bfq_wr_min_idle_time, FALSE, TRUE, FALSE, TRUE>>,
     <<TRUE, 1, 2 * bfq_wr_rt_max_time, bfq_wr_min_idle_time, TRUE, TRUE, FALSE,
       FALSE>>}

Init ==
    /\ call = NoCall
    /\ jiffies = StartTime
    /\ \E c \in Configs :
          /\ bfqd = [BfqdInit EXCEPT !.low_latency = c[1],
                                     !.bfq_wr_max_softrt_rate = c[2],
                                     !.bfq_wr_max_time = c[3],
                                     !.bfq_wr_min_idle_time = c[4]]
          /\ bfqq = [q \in Queues |->
                        IF q \in ServedQueues
                        THEN [BfqqInit EXCEPT
                                 !.sync = c[5], !.bic = c[6],
                                 !.IO_bound = c[8],
                                 !.budget_timeout =
                                     IF c[7] THEN StartTime ELSE @,
                                 !.soft_rt_next_start =
                                     IF c[7] THEN StartTime ELSE @,
                                 !.last_end_request =
                                     IF c[7] THEN StartTime ELSE @]
                        ELSE BfqqInit]
    /\ ev = NoEv
    /\ served = 0
    /\ burst_run = {}
    /\ TreeInit
    /\ sched = NoSched

Next == AddRequest \/ Tick \/ Serve

Spec == Init /\ [][Next]_vars

(***************************************************************************)
(* One queue and its pending requests: requests at several sectors arrive  *)
(* with the head at rest, and the queue may be put in service meanwhile.   *)
(***************************************************************************)
QueueHead == 4

\* sectors ahead of the head, behind it within reach of a back seek (two
\* sectors, for a bfq_back_max of 1 KiB) and beyond that reach
QueueSectors == {0, 1, 3, 4, 5}

\* The requests that arrive for queue q: of the queue's own kind; metadata
\* requests are one sector long.
QueueRqs(q) ==
    {[id |-> 0, pos |-> p, sync |-> bfqq[q].sync, meta |-> m,
      sectors |-> n] :
        p \in QueueSectors, m \in BOOLEAN, n \in {1, MaxRqSectors}}
    \ {r \in [id : {0}, pos : QueueSectors, sync : BOOLEAN, meta : {TRUE},
               sectors : {MaxRqSectors}] : MaxRqSectors > 1}

QueueInit ==
    /\ call = NoCall
    /\ jiffies = StartTime
    /\ bfqd = [BfqdInit EXCEPT !.bfq_back_max = 1,
                               !.last_position = QueueHead]
    /\ \E sync \in BOOLEAN :
          bfqq = [q \in Queues |->
                     IF q \in ServedQueues
                     THEN [BfqqInit EXCEPT !.sync = sync]
                     ELSE BfqqInit]
    /\ ev = NoEv
    /\ served = 0
    /\ burst_run = {}
    /\ TreeInit
    /\ sched = NoSched

\* A request arrives for the queue: bfq_add_request(rq).
QueueAddRequest ==
    \E q \in ServedQueues :
        /\ Len(bfqq[q].sort_list) < MaxPending
        /\ \E rq \in QueueRqs(q) :
              LET R == bfq_add_request([bfqd |-> bfqd, bfqq |-> bfqq], q, rq,
                                       jiffies)
              IN  /\ bfqd' = R.S.bfqd
                  /\ bfqq' = R.S.bfqq
                  /\ ev' = R.ev
                  /\ burst_run' = BurstRun(q, R.ev)
        /\ UNCHANGED <<jiffies, call, served>>
        /\ UNCHANGED <<tree_vars, sched>>

\* The scheduler puts the busy queue in service.
SelectQueue ==
    \E q \in ServedQueues :
        /\ bfqq[q].busy
        /\ bfqd.in_service_queue = 0
        /\ bfqd' = [bfqd EXCEPT !.in_service_queue = q]
        /\ ev' = NoEv
        /\ UNCHANGED <<jiffies, call, bfqq, served, burst_run>>
        /\ UNCHANGED <<tree_vars, sched>>

QueueNext == QueueAddRequest \/ SelectQueue

SpecQueue == QueueInit /\ [][QueueNext]_vars

(***************************************************************************)
(* Inputs of the pure-function specification.                              *)
(***************************************************************************)
ExampleSectors == {900, 1000, 2000}
Sectors == (0..MaxSector) \cup ExampleSectors
BackMaxKiB == {1, 1000}
BackPenalties == {1, bfq_back_penalty}
WrCoeffs == {1, 30}

RqInputs(i) ==
    {[id |-> i, pos |-> p, sync |-> s, meta |-> m, sectors |-> 1] :
        p \in Sectors, s \in BOOLEAN, m \in BOOLEAN}

PureInit ==
    /\ call = NoCall
    /\ jiffies = StartTime
    /\ bfqd = BfqdInit
    /\ bfqq = [q \in Queues |-> BfqqInit]
    /\ ev = NoEv
    /\ served = 0
    /\ burst_run = {}
    /\ TreeInit
    /\ sched = NoSched

\* One call of bfq_choose_req on drawn arguments (one call per behaviour).
CallChooseReq ==
    /\ call.fn = "none"
    /\ \E rq1 \in RqInputs(1) \cup {NoRq},
          rq2 \in RqInputs(1) \cup RqInputs(2) \cup {NoRq},
          last \in Sectors, bm \in BackMaxKiB, bp \in BackPenalties :
           /\ rq1.id = rq2.id => rq1 = rq2
           /\ LET d == [bfq_back_max |-> bm, bfq_back_penalty |-> bp] IN
              call' = [NoCall EXCEPT !.fn = "bfq_choose_req", !.rq1 = rq1,
                          !.rq2 = rq2, !.last = last, !.bfqd = d,
                          !.ret = bfq_choose_req(d, rq1, rq2, last)]
    /\ UNCHANGED <<jiffies, bfqd, bfqq, ev, served, burst_run>>
    /\ UNCHANGED <<tree_vars, sched>>

\* One call of bfq_serv_to_charge on drawn arguments.
CallServToCharge ==
    /\ call.fn = "none"
    /\ \E n \in 1..(MaxRqSectors * (1 + bfq_async_charge_factor)),
          sync \in BOOLEAN, wr \in WrCoeffs :
           LET rq == [id |-> 1, pos |-> 0, sync |-> sync, meta |-> FALSE,
                      sectors |-> n] IN
           call' = [NoCall EXCEPT !.fn = "bfq_serv_to_charge", !.rq1 = rq,
                       !.sync = sync, !.wr_coeff = wr,
                       !.charge = bfq_serv_to_charge(rq,
                                     [sync |-> sync, wr_coeff |-> wr])]
    /\ UNCHANGED <<jiffies, bfqd, bfqq, ev, served, burst_run>>
    /\ UNCHANGED <<tree_vars, sched>>

\* The sort list a queue holds after the n first requests of the arrival
\* sequence a (pairs of a start sector and a metadata flag) have been added
\* with elv_rb_add: sync requests of one sector, numbered in arrival order.
RECURSIVE SortListOf(_, _)
SortListOf(a, n) ==
    IF n = 0 THEN <<>>
    ELSE elv_rb_add(SortListOf(a, n - 1),
                    [id |-> n, pos |-> a[n][1], sync |-> TRUE,
                     meta |-> a[n][2], sectors |-> 1])

Arrivals(n) == [1..n -> (0..MaxSector) \X BOOLEAN]

\* One call of bfq_find_next_rq on a request of a drawn sort list.
CallFindNextRq ==
    /\ call.fn = "none"
    /\ \E n \in 1..MaxPending, bm \in BackMaxKiB :
          \E a \in Arrivals(n), k \in 1..n :
             LET list == SortListOf(a, n)
                 d == [bfq_back_max |-> bm,
                       bfq_back_penalty |-> bfq_back_penalty]
             IN  call' = [NoCall EXCEPT !.fn = "bfq_find_next_rq",
                             !.sort_list = list, !.rq1 = list[k],
                             !.last = blk_rq_pos(list[k]), !.bfqd = d,
                             !.ret = bfq_find_next_rq(d, list, list[k])]
    /\ UNCHANGED <<jiffies, bfqd, bfqq, ev, served, burst_run>>
    /\ UNCHANGED <<tree_vars, sched>>

PureNext == CallChooseReq \/ CallServToCharge \/ CallFindNextRq

SpecPure == PureInit /\ [][PureNext]_vars

(***************************************************************************)
(* Claims about the pure functions, checked under SpecPure.                *)
(***************************************************************************)
ChooseCalled ==
    /\ call.fn = "bfq_choose_req"
    /\ call.rq1.id # 0 /\ call.rq2.id # 0 /\ call.rq1.id # call.rq2.id

SameClass == call.rq1.sync = call.rq2.sync /\ call.rq1.meta = call.rq2.meta

BackMaxSectors == 2 * call.bfqd.bfq_back_max

\* s lies at or after the head, or behind it by at most back_max sectors.
InReach(s) == s >= call.last \/ call.last - s <= BackMaxSectors

Cost(s) ==
    IF s >= call.last THEN s - call.last
    ELSE (call.last - s) * call.bfqd.bfq_back_penalty

\* C1: for two distinct non-null candidates bfq_choose_req returns the sync
\* one when exactly one is sync, otherwise the metadata-flagged one when
\* exactly one is flagged; when the flags decide, the result is the same
\* for every pair of start sectors (seek distance is not consulted).
C1_ClassDecides ==
    ChooseCalled =>
        /\ (call.rq1.sync # call.rq2.sync) =>
              call.ret = (IF call.rq1.sync THEN call.rq1 ELSE call.rq2)
        /\ (call.rq1.sync = call.rq2.sync /\ call.rq1.meta # call.rq2.meta) =>
              call.ret = (IF call.rq1.meta THEN call.rq1 ELSE call.rq2)
        /\ ~SameClass =>
              \A p1 \in Sectors, p2 \in Sectors :
                  bfq_choose_req(call.bfqd, [call.rq1 EXCEPT !.pos = p1],
                                 [call.rq2 EXCEPT !.pos = p2], call.last).id
                      = call.ret.id

\* An async metadata request at the head loses to a sync request that wraps.
C1_Witness ==
    /\ ChooseCalled
    /\ ~call.rq1.sync /\ call.rq1.meta /\ call.rq1.pos = call.last
    /\ call.rq2.sync /\ ~call.rq2.meta /\ ~InReach(call.rq2.pos)
    /\ call.ret = call.rq2

\* C2: for two candidates of the same class that both lie at/after the head
\* or at most back_max sectors (2 x the KiB tunable, inclusive) behind it,
\* the one with the smaller cost is returned, the cost being (sector - last)
\* forwards and (last - sector) x back_penalty backwards; with last = 1000,
\* r1 at 2000, r2 at 900, back_max = 2000 sectors and back_penalty = 2 the
\* costs are 1000 and 200 and r2 is returned.
C2_SmallerCost ==
    (ChooseCalled /\ SameClass /\ InReach(call.rq1.pos) /\ InReach(call.rq2.pos))
    =>  /\ Cost(call.rq1.pos) < Cost(call.rq2.pos) => call.ret = call.rq1
        /\ Cost(call.rq2.pos) < Cost(call.rq1.pos) => call.ret = call.rq2
        /\ (/\ call.last = 1000 /\ call.rq1.pos = 2000 /\ call.rq2.pos = 900
            /\ BackMaxSectors = 2000 /\ call.bfqd.bfq_back_penalty = 2)
           => /\ Cost(call.rq1.pos) = 1000 /\ Cost(call.rq2.pos) = 200
              /\ call.ret = call.rq2

C2_Witness ==
    /\ ChooseCalled /\ SameClass
    /\ call.last = 1000 /\ call.rq1.pos = 2000 /\ call.rq2.pos = 900
    /\ BackMaxSectors = 2000 /\ call.bfqd.bfq_back_penalty = 2
    /\ call.ret = call.rq2

\* C3: a candidate more than back_max sectors behind the head is never
\* chosen over a candidate of the same class that is not; when both are,
\* the one with the lower start sector is returned.
C3_Wrap ==
    (ChooseCalled /\ SameClass) =>
        /\ (~InReach(call.rq1.pos) /\ InReach(call.rq2.pos)) =>
              call.ret = call.rq2
        /\ (InReach(call.rq1.pos) /\ ~InReach(call.rq2.pos)) =>
              call.ret = call.rq1
        /\ (~InReach(call.rq1.pos) /\ ~InReach(call.rq2.pos)) =>
              /\ call.rq1.pos < call.rq2.pos => call.ret = call.rq1
              /\ call.rq2.pos < call.rq1.pos => call.ret = call.rq2

\* Both candidates wrap and the second, farther behind the head, is returned.
C3_Witness ==
    /\ ChooseCalled /\ SameClass
    /\ ~InReach(call.rq1.pos) /\ ~InReach(call.rq2.pos)
    /\ call.rq2.pos < call.rq1.pos
    /\ call.ret = call.rq2

\* C4: bfq_serv_to_charge charges 11 x sectors to an async queue that is not
\* weight-raised and exactly the sectors to a sync or weight-raised queue;
\* so the charge of n sectors to a non-raised async queue is the charge of
\* 11 x n sectors to a sync queue.
C4_Charge ==
    call.fn = "bfq_serv_to_charge" =>
        /\ (~call.sync /\ call.wr_coeff = 1) =>
              /\ call.charge = 11 * call.rq1.sectors
              /\ call.charge =
                     bfq_serv_to_charge(
                         [call.rq1 EXCEPT !.sectors = 11 * call.rq1.sectors],
                         [sync |-> TRUE, wr_coeff |-> call.wr_coeff])
        /\ (call.sync \/ call.wr_coeff > 1) =>
              call.charge = call.rq1.sectors

\* A weight-raised async queue is charged the plain sectors.
C4_Witness ==
    /\ call.fn = "bfq_serv_to_charge"
    /\ ~call.sync /\ call.wr_coeff > 1 /\ call.rq1.sectors = 3
    /\ call.charge = 3

(***************************************************************************)
(* Bursts of activations and weight raising: bfq_add_request.              *)
(***************************************************************************)
Now == [bfqd |-> bfqd, bfqq |-> bfqq]

Flagged == {i \in Queues : bfqq[i].in_large_burst}

\* the burst list without q: the list bfq_add_to_burst finds when q joins
ListJoinedBy(q) == BurstList(Now) \ {q}

\* the step is an idle->busy activation of q by bfq_add_request
Activates(q) == ev'.activated /\ ev'.q = q

\* the call that has just returned activated q
Activated(q) == ev.activated /\ ev.q = q

\* C5: when bfq_large_burst_thresh or more distinct sync queues, none of
\* them in the burst list or flagged, have been activated one after the
\* other, each no later than bfq_burst_interval after the last insertion in
\* the burst, every one of them is flagged in_large_burst: the first ones
\* when the one that completes the threshold arrives, the later ones at
\* their own activation.
C5_BurstAllFlagged ==
    Cardinality(burst_run) >= bfqd.bfq_large_burst_thresh
        => burst_run \subseteq Flagged

\* a run longer than the threshold, whose last queue has just been flagged
\* on arrival
C5_Witness ==
    /\ Cardinality(burst_run) > bfqd.bfq_large_burst_thresh
    /\ ev.activated /\ ev.burst_path = "mark" /\ ev.q \in burst_run
    /\ burst_run \subseteq Flagged

\* C6: when a sync queue that is neither in the burst list nor flagged is
\* activated more than bfq_burst_interval after last_ins_in_burst, the
\* burst is reset: large_burst is off, the burst list holds exactly that
\* queue, burst_size is 1 and the queue is not flagged.
C6_LateActivationResets ==
    [][\A q \in Queues :
          (/\ Activates(q)
           /\ bfqq[q].sync
           /\ ~bfqq[q].burst_list_node
           /\ ~bfqq[q].in_large_burst
           /\ jiffies > bfqd.last_ins_in_burst + bfqd.bfq_burst_interval)
          => (/\ ~bfqd'.large_burst
              /\ {i \in Queues : bfqq'[i].burst_list_node} = {q}
              /\ bfqd'.burst_size = 1
              /\ ~bfqq'[q].in_large_burst)]_vars

\* a late activation has just ended a large burst: queues flagged by it are
\* still around
C6_Witness ==
    /\ ev.activated /\ ev.burst_path = "reset" /\ ~ev.already_in_burst
    /\ Flagged # {}
    /\ ~bfqd.large_burst
    /\ BurstList(Now) = {ev.q}
    /\ bfqd.burst_size = 1

\* C7 as stated: when large_burst gets set, the number of queues in the
\* burst list plus the joining queue equals the threshold, all of them are
\* flagged and the list is emptied.
C7_ListCountIsThreshold ==
    [][\A q \in Queues :
          (Activates(q) /\ ~bfqd.large_burst /\ bfqd'.large_burst)
          => (/\ Cardinality(ListJoinedBy(q)) + 1
                     = bfqd.bfq_large_burst_thresh
              /\ \A i \in ListJoinedBy(q) \cup {q} : bfqq'[i].in_large_burst
              /\ \A i \in Queues : ~bfqq'[i].burst_list_node)]_vars

\* C7: large_burst gets set exactly when burst_size, the number of
\* insertions in the burst since its reset, reaches the threshold.  A queue
\* that left the list after a long idle time stays counted, so the queues
\* in the list plus the joining one are at most the threshold.  All of them
\* are flagged and the list is emptied.
C7_BurstSizeIsThreshold ==
    [][/\ (~bfqd.large_burst /\ bfqd'.large_burst)
           <=> (/\ bfqd.burst_size + 1 = bfqd.bfq_large_burst_thresh
                /\ bfqd'.burst_size = bfqd.bfq_large_burst_thresh)
       /\ \A q \in Queues :
             (Activates(q) /\ ~bfqd.large_burst /\ bfqd'.large_burst)
             => (/\ Cardinality(ListJoinedBy(q)) + 1
                        <= bfqd.bfq_large_burst_thresh
                 /\ \A i \in ListJoinedBy(q) \cup {q} :
                       bfqq'[i].in_large_burst
                 /\ \A i \in Queues : ~bfqq'[i].burst_list_node)
       /\ (~bfqd.large_burst /\ bfqd'.large_burst)
             => \E q \in Queues : Activates(q)]_vars

\* the queue that has just joined made the burst large
C7_Witness ==
    /\ ev.activated /\ ev.burst_path = "add"
    /\ bfqd.large_burst
    /\ bfqd.burst_size = bfqd.bfq_large_burst_thresh
    /\ ev.q \in Flagged
    /\ Cardinality(Flagged) >= 2
    /\ BurstList(Now) = {}

WrStartCase(q) ==
    /\ Activated(q)
    /\ bfqd.low_latency
    /\ ev.old_wr_coeff = 1
    /\ ~bfqq[q].in_large_burst

AsyncOrLinked(q) == ~bfqq[q].sync \/ bfqq[q].bic

InteractiveStarted(q) ==
    /\ bfqq[q].wr_coeff = bfqd.bfq_wr_coeff
    /\ bfqq[q].wr_cur_max_time = bfq_wr_duration(bfqd)
    /\ bfqq[q].prio_changed

\* C9 as stated: the interactive trigger fires after an idle time of at
\* least bfq_wr_min_idle_time.
C9_InteractiveAtLeast ==
    \A q \in Queues :
        (/\ WrStartCase(q) /\ AsyncOrLinked(q)
         /\ jiffies >= bfqq[q].budget_timeout + bfqd.bfq_wr_min_idle_time)
        => InteractiveStarted(q)

\* C9: with low_latency on, a queue that is not raised, not in a large
\* burst, and async or linked to its io context, activated more than
\* bfq_wr_min_idle_time after its budget_timeout, gets wr_coeff =
\* bfq_wr_coeff, wr_cur_max_time = bfq_wr_duration() and prio_changed.
C9_InteractiveAfter ==
    \A q \in Queues :
        (/\ WrStartCase(q) /\ AsyncOrLinked(q)
         /\ jiffies > bfqq[q].budget_timeout + bfqd.bfq_wr_min_idle_time)
        => InteractiveStarted(q)

\* an async queue, served before, has been raised as interactive
C9_Witness ==
    /\ ev.activated /\ WrStartCase(ev.q)
    /\ ~bfqq[ev.q].sync
    /\ jiffies > bfqq[ev.q].budget_timeout + bfqd.bfq_wr_min_idle_time
    /\ InteractiveStarted(ev.q)

SoftRtCase(q) ==
    /\ WrStartCase(q)
    /\ bfqd.bfq_wr_max_softrt_rate > 0
    /\ jiffies > bfqq[q].soft_rt_next_start

SoftRtStarted(q) ==
    /\ bfqq[q].wr_coeff = bfqd.bfq_wr_coeff
    /\ bfqq[q].wr_cur_max_time =
          IF jiffies > bfqq[q].budget_timeout + bfqd.bfq_wr_min_idle_time
          THEN bfq_wr_duration(bfqd)
          ELSE bfqd.bfq_wr_rt_max_time

\* C10 as stated: the soft real-time trigger fires for every queue that is
\* not raised and not in a large burst.
C10_SoftRtAnyQueue ==
    \A q \in Queues : SoftRtCase(q) => SoftRtStarted(q)

\* C10: with low_latency on and a positive soft-rt rate limit, a queue that
\* is not raised, not in a large burst, and async or linked to its io
\* context, activated later than its soft_rt_next_start, gets wr_coeff =
\* bfq_wr_coeff; wr_cur_max_time is bfq_wr_rt_max_time, or
\* bfq_wr_duration() when the queue is interactive too.
C10_SoftRtAsyncOrLinked ==
    \A q \in Queues :
        (SoftRtCase(q) /\ AsyncOrLinked(q)) => SoftRtStarted(q)

\* a queue that is not interactive has been raised as soft real-time, for
\* a duration that differs from the interactive one
C10_Witness ==
    /\ ev.activated /\ SoftRtCase(ev.q) /\ AsyncOrLinked(ev.q)
    /\ jiffies <= bfqq[ev.q].budget_timeout + bfqd.bfq_wr_min_idle_time
    /\ bfqq[ev.q].wr_coeff = bfqd.bfq_wr_coeff
    /\ bfqq[ev.q].wr_cur_max_time = bfqd.bfq_wr_rt_max_time
    /\ bfq_wr_duration(bfqd) # bfqd.bfq_wr_rt_max_time

\* C11: with low_latency on, when a weight-raised queue is activated, is
\* not interactive, and either is in a large burst or has a soft real-time
\* raising period (wr_cur_max_time = bfq_wr_rt_max_time) without meeting
\* the soft real-time condition any more, bfq_add_request sets wr_coeff to
\* 1 and sets prio_changed.
C11_WrEndsAtReactivation ==
    [][\A q \in Queues :
          (/\ Activates(q)
           /\ bfqd.low_latency
           /\ bfqq[q].wr_coeff > 1
           /\ ~(/\ ~bfqq'[q].in_large_burst
                /\ jiffies > bfqq[q].budget_timeout
                                 + bfqd.bfq_wr_min_idle_time)
           /\ \/ bfqq'[q].in_large_burst
              \/ /\ bfqq[q].wr_cur_max_time = bfqd.bfq_wr_rt_max_time
                 /\ ~(/\ bfqd.bfq_wr_max_softrt_rate > 0
                      /\ jiffies > bfqq[q].soft_rt_next_start))
          => (bfqq'[q].wr_coeff = 1 /\ bfqq'[q].prio_changed)]_vars

\* a soft real-time raising period has just been ended at activation,
\* outside of any large burst
C11_Witness ==
    /\ ev.activated /\ bfqd.low_latency
    /\ ev.old_wr_coeff > 1
    /\ ~bfqq[ev.q].in_large_burst
    /\ bfqq[ev.q].wr_cur_max_time = bfqd.bfq_wr_rt_max_time
    /\ bfq_wr_duration(bfqd) # bfqd.bfq_wr_rt_max_time
    /\ bfqq[ev.q].wr_coeff = 1
    /\ bfqq[ev.q].prio_changed

\* the step is a call of bfq_add_request
AddsRequest == ev'.q # 0

\* C12: while low_latency is off, no call of bfq_add_request, whether it
\* activates a queue or adds to a busy one, changes wr_coeff,
\* wr_cur_max_time or last_wr_start_finish of any queue, or
\* wr_busy_queues.
C12_LowLatencyOffFrame ==
    [][(AddsRequest /\ ~bfqd.low_latency)
          => (/\ \A q \in Queues :
                    /\ bfqq'[q].wr_coeff = bfqq[q].wr_coeff
                    /\ bfqq'[q].wr_cur_max_time = bfqq[q].wr_cur_max_time
                    /\ bfqq'[q].last_wr_start_finish
                           = bfqq[q].last_wr_start_finish
              /\ bfqd'.wr_busy_queues = bfqd.wr_busy_queues)]_vars

\* with low_latency off, an async request has reached a busy queue late
\* enough for the raising of lines 916-929, and the queue is not raised
C12_Witness ==
    /\ ~bfqd.low_latency
    /\ ev.q # 0 /\ ~ev.activated
    /\ ~bfqq[ev.q].sync
    /\ jiffies > bfqq[ev.q].last_wr_start_finish
                     + bfqd.bfq_wr_min_inter_arr_async
    /\ bfqq[ev.q].wr_coeff = 1
    /\ bfqd.wr_busy_queues = 0

QueuedSum(f) ==
    LET RECURSIVE Sum(_)
        Sum(n) == IF n = 0 THEN 0
                  ELSE f[n].queued[1] + f[n].queued[2] + Sum(n - 1)
    IN  Sum(NumQueues)

\* the request the step has added to queue q
Added(q) ==
    CHOOSE r \in {bfqq'[q].sort_list[k] : k \in 1..Len(bfqq'[q].sort_list)} :
        r.id \notin RqIds(bfqq[q].sort_list)

\* C17: bfqd->queued equals the sum over the queues of queued[0] +
\* queued[1]; every call of bfq_add_request adds one to the counter of the
\* request's sync flag in its queue, leaves every other counter alone and
\* adds one to bfqd->queued.
C17_QueuedSum ==
    /\ [](bfqd.queued = QueuedSum(bfqq))
    /\ [][\A q \in Queues :
             (ev'.q = q)
             => LET i == IF rq_is_sync(Added(q)) THEN 2 ELSE 1 IN
                /\ bfqq'[q].queued[i] = bfqq[q].queued[i] + 1
                /\ bfqq'[q].queued[3 - i] = bfqq[q].queued[3 - i]
                /\ \A o \in Queues \ {q} : bfqq'[o].queued = bfqq[o].queued
                /\ bfqd'.queued = bfqd.queued + 1]_vars

\* requests are pending in sync and async counters of several queues
C17_Witness ==
    /\ bfqd.queued >= 3
    /\ bfqd.queued = QueuedSum(bfqq)
    /\ \E q \in Queues : bfqq[q].queued[1] >= 2
    /\ \E q \in Queues : bfqq[q].queued[2] >= 1

Pending(q) == {bfqq[q].sort_list[k] : k \in 1..Len(bfqq[q].sort_list)}

NextRq(q) == RqOf(bfqq[q].sort_list, bfqq[q].next_rq)

\* C13: a request that arrives for the queue in service leaves the budget
\* of the queue as it is and does not re-activate the queue, also when the
\* arrival makes next_rq a request whose charge exceeds the budget.
C13_InServiceBudgetKept ==
    [][\A q \in Queues :
          (ev'.q = q /\ bfqd.in_service_queue = q)
          => (bfqq'[q].budget = bfqq[q].budget /\ ~ev'.reactivated)]_vars

\* the queue in service has got a new next_rq whose charge exceeds its
\* budget
C13_Witness ==
    /\ ev.q # 0 /\ bfqd.in_service_queue = ev.q
    /\ ev.next_rq_changed
    /\ bfq_serv_to_charge(NextRq(ev.q), bfqq[ev.q]) > bfqq[ev.q].budget

\* C20: with the head at rest and no dispatch, after any sequence of
\* bfq_add_request calls next_rq is a pending request of the queue that
\* bfq_choose_req prefers to every pending request of the queue.
C20_NextRqIsBest ==
    \A q \in Queues :
        Pending(q) # {}
        => (/\ NextRq(q) \in Pending(q)
            /\ \A r \in Pending(q) :
                  bfq_choose_req(bfqd, NextRq(q), r, bfqd.last_position)
                      = NextRq(q))

\* three requests are pending, the second to arrive is next_rq, and the
\* pending requests include one ahead of the head, one behind it and one
\* out of reach
C20_Witness ==
    \E q \in Queues :
        /\ Len(bfqq[q].sort_list) = 3
        /\ bfqq[q].next_rq = 2
        /\ \E r \in Pending(q) : r.pos > bfqd.last_position
        /\ \E r \in Pending(q) :
              /\ r.pos < bfqd.last_position
              /\ r.pos + 2 * bfqd.bfq_back_max >= bfqd.last_position
        /\ \E r \in Pending(q) :
              r.pos + 2 * bfqd.bfq_back_max < bfqd.last_position

(***************************************************************************)
(* The weight-counter tree, checked under SpecTree.                        *)
(***************************************************************************)
Holders == {e \in Entities : entity[e].weight_counter # 0}

HeldWeights == {entity[e].weight : e \in Holders}

Counters == TreeNodes(queue_weights_tree.rb_node)

Referencing(c) == {e \in Entities : entity[e].weight_counter = c}

TreeConsistent ==
    /\ Cardinality(Counters) = Cardinality(HeldWeights)
    /\ {queue_weights_tree.counter[c].weight : c \in Counters} = HeldWeights
    /\ \A e \in Holders :
          /\ entity[e].weight_counter \in Counters
          /\ queue_weights_tree.counter[entity[e].weight_counter].weight
                = entity[e].weight
    /\ \A c \in Counters :
          /\ queue_weights_tree.counter[c].num_active
                = Cardinality(Referencing(c))
          /\ queue_weights_tree.counter[c].num_active >= 1

\* C14: bfq_weights_tree_add for an entity that holds a counter changes
\* neither the tree, nor a counter, nor the counter the entity refers to.
C14_AddIdempotent ==
    [][\A e \in Entities :
          (/\ tev'.op = "add" /\ tev'.e = e
           /\ entity[e].weight_counter # 0)
          => (/\ queue_weights_tree' = queue_weights_tree
              /\ entity' = entity
              /\ fault' = fault)]_vars

\* the call has been made for an entity that shares its counter with
\* another one
C14_Witness ==
    /\ tev.op = "add" /\ tev.held
    /\ Cardinality(Referencing(entity[tev.e].weight_counter)) = 2
    /\ queue_weights_tree.counter[entity[tev.e].weight_counter].num_active
          = 2

\* C15: the tree holds exactly one counter per distinct weight of the
\* entities that hold a counter, the num_active of every counter is the
\* number of entities that refer to it and is at least 1, and no BUG_ON of
\* bfq_weights_tree_remove fires.
C15_TreeCountsWeights ==
    /\ fault # "BUG_ON"
    /\ TreeConsistent

\* an entity has left a counter that another entity still refers to, and
\* the tree holds a second counter
C15_Witness ==
    /\ tev.op = "remove" /\ tev.held
    /\ Cardinality(Counters) = 2
    /\ \E c \in Counters :
          /\ queue_weights_tree.counter[c].weight = entity[tev.e].weight
          /\ queue_weights_tree.counter[c].num_active = 1

\* C16: bfq_differentiated_weights tells whether the tree holds two
\* counters or more, and bfq_symmetric_scenario (no group scheduling)
\* whether the entities that hold a counter have at most one distinct
\* weight.
C16_SymmetricScenario ==
    /\ bfq_differentiated_weights(queue_weights_tree)
          <=> Cardinality(Counters) >= 2
    /\ bfq_symmetric_scenario(queue_weights_tree)
          <=> Cardinality(HeldWeights) <= 1

\* two weights are counted and the root of the tree has a right child only
C16_Witness ==
    /\ Cardinality(HeldWeights) = 2
    /\ queue_weights_tree.rb_node.node # 0
    /\ queue_weights_tree.rb_node.rb_left.node = 0
    /\ queue_weights_tree.rb_node.rb_right.node # 0
    /\ bfq_differentiated_weights(queue_weights_tree)

\* C18: when the allocation of a counter fails in bfq_weights_tree_add, the
\* call neither stops the kernel nor uses the failed allocation, and the
\* tree stays consistent.
C18_AllocFailureTolerated ==
    tev.alloc_failed => (fault = "none" /\ TreeConsistent)

\* the weighted services of the two compared queues over the interval,
\* over the common denominator wA * wB
ServiceGap ==
    LET d == sched.got[1] * sched.weight[2] - sched.got[2] * sched.weight[1]
    IN  IF d < 0 THEN -d ELSE d

\* bA/wA + bB/wB over the same denominator
BudgetSum ==
    sched.budget[1] * sched.weight[2] + sched.budget[2] * sched.weight[1]

\* max(bA/wA, bB/wB) over the same denominator
BudgetMax ==
    Max(sched.budget[1] * sched.weight[2], sched.budget[2] * sched.weight[1])

BudgetAssigned ==
    /\ ev.q # 0
    /\ \/ ev.activated
       \/ ev.next_rq_changed /\ bfqd.in_service_queue # ev.q

\* C21 as stated: after bfq_add_request activates a queue, and after an
\* arrival that changes next_rq of a busy queue not in service, the entity
\* budget is max(max_budget, bfq_serv_to_charge(next_rq)) and so never
\* smaller than the charge of next_rq.
C21_BudgetCoversNextRq ==
    BudgetAssigned
    => bfqq[ev.q].budget >= bfq_serv_to_charge(NextRq(ev.q), bfqq[ev.q])

\* the step re-activates the weight-raised queue q while it meets the soft
\* real-time condition of lines 797-799
SoftRtReactivates(q) ==
    /\ Activates(q)
    /\ bfqd.low_latency
    /\ bfqq[q].wr_coeff > 1
    /\ bfqd.bfq_wr_max_softrt_rate > 0
    /\ ~bfqq'[q].in_large_burst
    /\ jiffies > bfqq[q].soft_rt_next_start

\* the end of the weight-raising period of a queue
WrEnd(b) == b.last_wr_start_finish + b.wr_cur_max_time

\* the step recharges the period of q, or leaves it alone when
\* bfq_wr_rt_max_time or more of it is left
RechargedOrUntouched(q) ==
    IF WrEnd(bfqq[q]) < jiffies + bfqd.bfq_wr_rt_max_time
    THEN /\ bfqq'[q].last_wr_start_finish = jiffies
         /\ bfqq'[q].wr_cur_max_time = bfqd.bfq_wr_rt_max_time
         /\ bfqq'[q].wr_coeff = bfqq[q].wr_coeff
         /\ WrEnd(bfqq'[q]) > WrEnd(bfqq[q])
    ELSE /\ bfqq'[q].last_wr_start_finish = bfqq[q].last_wr_start_finish
         /\ bfqq'[q].wr_cur_max_time = bfqq[q].wr_cur_max_time
         /\ bfqq'[q].wr_coeff = bfqq[q].wr_coeff

\* C22 as stated: a weight-raised queue that meets the soft real-time
\* condition and is re-activated with less than bfq_wr_rt_max_time of
\* raising left gets last_wr_start_finish = now and wr_cur_max_time =
\* bfq_wr_rt_max_time, the new end of the period being strictly later than
\* the old one; with bfq_wr_rt_max_time or more left the period is untouched.
C22_SoftRtRecharge ==
    [][\A q \in Queues : SoftRtReactivates(q) => RechargedOrUntouched(q)]_vars

\* C22: a weight-raised queue that meets the soft real-time condition and
\* is re-activated, without having been idle for more than
\* bfq_wr_min_idle_time, with less than bfq_wr_rt_max_time of raising left
\* gets last_wr_start_finish = now and wr_cur_max_time =
\* bfq_wr_rt_max_time, the new end of the period being strictly later than
\* the old one; with bfq_wr_rt_max_time or more left the period is untouched.
C22_SoftRtRechargeUnlessInteractive ==
    [][\A q \in Queues :
          (/\ SoftRtReactivates(q)
           /\ jiffies <= bfqq[q].budget_timeout + bfqd.bfq_wr_min_idle_time)
          => RechargedOrUntouched(q)]_vars

\* a raised soft real-time queue, not interactive, has just been recharged:
\* its period starts now and lasts bfq_wr_rt_max_time
C22_Witness ==
    /\ ev.q # 0
    /\ ev.activated
    /\ ev.soft_rt
    /\ ~ev.interactive
    /\ ev.old_wr_coeff > 1
    /\ bfqq[ev.q].wr_coeff > 1
    /\ bfqq[ev.q].last_wr_start_finish = jiffies
    /\ bfqq[ev.q].wr_cur_max_time = bfqd.bfq_wr_rt_max_time

\* the step re-activates q, whose weight is raised for the interactive
\* duration, before the end of its period, outside a large burst and while
\* it is neither interactive nor soft real-time
InteractiveWrReactivates(q) ==
    /\ Activates(q)
    /\ bfqd.low_latency
    /\ bfqq[q].wr_coeff > 1
    /\ bfqq[q].wr_cur_max_time = bfq_wr_duration(bfqd)
    /\ jiffies < WrEnd(bfqq[q])
    /\ ~bfqq'[q].in_large_burst
    /\ jiffies <= bfqq[q].budget_timeout + bfqd.bfq_wr_min_idle_time
    /\ ~(/\ bfqd.bfq_wr_max_softrt_rate > 0
         /\ jiffies > bfqq[q].soft_rt_next_start)

LongIdleReentry(q) ==
    /\ Activates(q)
    /\ bfqq[q].sync
    /\ bfqq[q].in_large_burst \/ bfqq[q].burst_list_node
    /\ jiffies > bfqq[q].budget_timeout + bfqd.bfq_wr_min_idle_time

\* the activation falls within bfq_burst_interval of the last insertion
BurstRunning == jiffies <= bfqd.last_ins_in_burst + bfqd.bfq_burst_interval

\* C24: a queue that is flagged in_large_burst or in the burst list and is
\* re-activated after more than bfq_wr_min_idle_time of idleness loses its
\* flag and its place in the list, burst_size not being decremented, and is
\* then handled as a queue new to the burst: it is flagged in that
\* activation only if the burst is still running and is large or gets
\* large by this insertion; otherwise it is put in the list and counted
\* again, in the running burst or as the first queue of a new one.
C24_LongIdleReentry ==
    [][\A q \in Queues :
          LongIdleReentry(q)
          => /\ bfqq'[q].in_large_burst
                => /\ BurstRunning
                   /\ \/ bfqd.large_burst
                      \/ bfqd.burst_size + 1 = bfqd.bfq_large_burst_thresh
             /\ BurstRunning => bfqd'.burst_size >= bfqd.burst_size
             /\ (BurstRunning /\ bfqd.large_burst)
                => /\ bfqq'[q].in_large_burst
                   /\ bfqd'.burst_size = bfqd.burst_size
             /\ (BurstRunning /\ ~bfqd.large_burst)
                => bfqd'.burst_size = bfqd.burst_size + 1
             /\ ~bfqq'[q].in_large_burst
                => /\ bfqq'[q].burst_list_node
                   /\ BurstRunning
                      => BurstList([bfqq |-> bfqq'])
                             = BurstList(Now) \cup {q}
                   /\ ~BurstRunning
                      => /\ BurstList([bfqq |-> bfqq']) = {q}
                         /\ bfqd'.burst_size = 1
                         /\ ~bfqd'.large_burst]_vars

\* a queue of the burst list has come back after a long idle time while the
\* burst was running, and its second insertion has made the burst large
C24_Witness ==
    /\ ev.q # 0
    /\ ev.activated
    /\ ev.already_in_burst
    /\ ev.idle_for_long_time
    /\ ev.burst_path = "add"
    /\ bfqq[ev.q].in_large_burst
    /\ bfqd.large_burst

\* the burst list after the step
BurstListAfter == {i \in Queues : bfqq'[i].burst_list_node}

\* the step activates a sync queue that is neither in the burst list nor
\* flagged in_large_burst
ActivatesOutsideBurst ==
    /\ ev'.activated
    /\ bfqq[ev'.q].sync
    /\ ~bfqq[ev'.q].burst_list_node
    /\ ~bfqq[ev'.q].in_large_burst

\* C25: a step moves last_ins_in_burst to the current time exactly when it
\* activates a sync queue that, before burst handling, was neither in the
\* burst list nor flagged in_large_burst; the re-activation of a queue
\* already in the burst that has not been idle for a long time leaves
\* last_ins_in_burst, burst_size, the burst list and large_burst unchanged.
C25_BurstWindowMoved ==
    [][/\ bfqd'.last_ins_in_burst =
              IF ActivatesOutsideBurst THEN jiffies
              ELSE bfqd.last_ins_in_burst
       /\ \A q \in Queues :
             (/\ Activates(q)
              /\ bfqq[q].sync
              /\ bfqq[q].burst_list_node \/ bfqq[q].in_large_burst
              /\ jiffies <= bfqq[q].budget_timeout
                                + bfqd.bfq_wr_min_idle_time)
             => /\ bfqd'.last_ins_in_burst = bfqd.last_ins_in_burst
                /\ bfqd'.burst_size = bfqd.burst_size
                /\ bfqd'.large_burst = bfqd.large_burst
                /\ BurstListAfter = BurstList(Now)
                /\ Flagged = {i \in Queues : bfqq'[i].in_large_burst}]_vars

\* a queue already in the burst has been re-activated, without a long idle
\* time, later than the last insertion in the burst
C25_Witness ==
    /\ ev.q # 0
    /\ ev.activated
    /\ ev.already_in_burst
    /\ ~ev.idle_for_long_time
    /\ bfqd.last_ins_in_burst < jiffies
    /\ bfqd.burst_size > 0

\* C26: in every reachable state the burst list is empty when large_burst
\* is on, and, bfq_large_burst_thresh being 2 or more, burst_size is at
\* most bfq_large_burst_thresh and at least the number of queues in the
\* burst list.
C26_BurstCounters ==
    /\ bfqd.large_burst => BurstList(Now) = {}
    /\ bfqd.bfq_large_burst_thresh >= 2
       => /\ bfqd.burst_size <= bfqd.bfq_large_burst_thresh
          /\ bfqd.burst_size >= Cardinality(BurstList(Now))

\* the burst is large: its list has been emptied with burst_size at the
\* threshold, and a queue has been flagged since
C26_Witness ==
    /\ bfqd.large_burst
    /\ bfqd.burst_size = bfqd.bfq_large_burst_thresh
    /\ ev.q # 0
    /\ ev.burst_path = "mark"
    /\ Flagged # {}

\* C27: the idle->busy activation of an async queue leaves the burst list,
\* burst_size, large_burst and last_ins_in_burst unchanged and sets or
\* clears no in_large_burst flag; an async queue is never flagged
\* in_large_burst.
C27_AsyncOutsideBursts ==
    /\ [](\A q \in Queues : ~bfqq[q].sync => ~bfqq[q].in_large_burst)
    /\ [][\A q \in Queues :
             (Activates(q) /\ ~bfqq[q].sync)
             => /\ BurstListAfter = BurstList(Now)
                /\ bfqd'.burst_size = bfqd.burst_size
                /\ bfqd'.large_burst = bfqd.large_burst
                /\ bfqd'.last_ins_in_burst = bfqd.last_ins_in_burst
                /\ Flagged = {i \in Queues : bfqq'[i].in_large_burst}]_vars

\* an async queue has been activated while a burst of sync queues was
\* running
C27_Witness ==
    /\ ev.q # 0
    /\ ev.activated
    /\ ~bfqq[ev.q].sync
    /\ bfqd.burst_size > 0
    /\ jiffies <= bfqd.last_ins_in_burst + bfqd.bfq_burst_interval
    /\ ~bfqq[ev.q].burst_list_node

(***************************************************************************)
(* The chooser as a function of an unordered pair, checked under SpecPure. *)
(***************************************************************************)
\* the call returns one of its arguments: none only when both are absent,
\* the other one when one is absent
ReturnsAnArgument ==
    /\ call.ret \in {call.rq1, call.rq2}
    /\ call.ret = NoRq <=> (call.rq1 = NoRq /\ call.rq2 = NoRq)
    /\ call.rq1 = NoRq => call.ret = call.rq2
    /\ call.rq2 = NoRq => call.ret = call.rq1

\* the call with its arguments swapped returns the same request
OrderIndependent ==
    bfq_choose_req(call.bfqd, call.rq2, call.rq1, call.last) = call.ret

HigherSector ==
    IF call.rq1.pos > call.rq2.pos THEN call.rq1 ELSE call.rq2

\* C28 as stated: bfq_choose_req returns one of its arguments; for two
\* present requests with different start sectors the result does not depend
\* on the order of the arguments, and with equal cost the higher-sector
\* request wins.
C28_ChooserUnordered ==
    call.fn = "bfq_choose_req"
    => /\ ReturnsAnArgument
       /\ (ChooseCalled /\ call.rq1.pos # call.rq2.pos)
          => /\ OrderIndependent
             /\ Cost(call.rq1.pos) = Cost(call.rq2.pos)
                => call.ret = HigherSector

\* C28: bfq_choose_req returns one of its arguments (none only when both
\* are absent, the other one when one is absent); for two present requests
\* with different start sectors the result does not depend on the order of
\* the arguments, and when the two are of the same sync/metadata class and
\* have equal cost the higher-sector request wins.
C28_ChooserUnorderedSameClass ==
    call.fn = "bfq_choose_req"
    => /\ ReturnsAnArgument
       /\ (ChooseCalled /\ call.rq1.pos # call.rq2.pos)
          => /\ OrderIndependent
             /\ (SameClass /\ Cost(call.rq1.pos) = Cost(call.rq2.pos))
                => call.ret = HigherSector

\* two requests of the same class at the same cost, the first one behind
\* the head: the second, forward one is returned
C28_Witness ==
    /\ ChooseCalled /\ SameClass
    /\ call.rq1.pos < call.last
    /\ call.rq2.pos > call.last
    /\ Cost(call.rq1.pos) = Cost(call.rq2.pos)
    /\ call.ret = call.rq2
    /\ OrderIndependent

(***************************************************************************)
(* bfq_find_next_rq, checked under SpecPure.                               *)
(***************************************************************************)
FindCalled == call.fn = "bfq_find_next_rq"

\* the place of `last` in the sort list
LastIndex ==
    CHOOSE i \in 1..Len(call.sort_list) : call.sort_list[i].id = call.rq1.id

\* the request after `last` in sector order, the lowest-sector request of
\* the queue when `last` is the highest, none when `last` is alone
Successor ==
    IF LastIndex < Len(call.sort_list) THEN call.sort_list[LastIndex + 1]
    ELSE IF Len(call.sort_list) > 1 THEN call.sort_list[1]
    ELSE NoRq

\* the request before `last` in sector order, none when `last` is the lowest
Predecessor ==
    IF LastIndex > 1 THEN call.sort_list[LastIndex - 1] ELSE NoRq

\* C29: bfq_find_next_rq(last) returns what bfq_choose_req picks, with the
\* head at the start sector of last, between the successor of last in sector
\* order (the lowest-sector request of the queue when last is the highest)
\* and its predecessor; it never returns last and returns no request exactly
\* when last is the only request of the sort list.
C29_FindNextRq ==
    FindCalled
    => /\ call.ret = bfq_choose_req(call.bfqd, Successor, Predecessor,
                                    call.rq1.pos)
       /\ call.ret.id # call.rq1.id
       /\ call.ret = NoRq <=> Len(call.sort_list) = 1
       /\ call.ret # NoRq
          => \E i \in 1..Len(call.sort_list) : call.sort_list[i] = call.ret
       /\ \A i \in 1..Len(call.sort_list) :
             /\ i < LastIndex => call.sort_list[i].pos <= call.rq1.pos
             /\ i > LastIndex => call.sort_list[i].pos >= call.rq1.pos

\* last is the highest of three requests, the two others are beyond the
\* reach of a back seek, and the lowest-sector request is returned
C29_Witness ==
    /\ FindCalled
    /\ Len(call.sort_list) = 3
    /\ LastIndex = 3
    /\ call.sort_list[1].pos < call.sort_list[2].pos
    /\ call.sort_list[2].pos < call.rq1.pos
    /\ call.ret = call.sort_list[1]

\* the step is an activation of q less than bfq_slice_idle after the last
\* completion of a request of q
TimelyActivation(q) ==
    /\ Activates(q)
    /\ jiffies < bfqq[q].last_end_request + bfqd.bfq_slice_idle

\* C30: a queue that is not flagged IO_bound gets the flag from
\* bfq_add_request only at an activation that comes less than bfq_slice_idle
\* after its last completion and brings requests_within_timer, the count of
\* consecutive such activations, to bfq_requests_within_timer; a later
\* activation resets the count to zero; bfq_add_request never clears the
\* flag.
C30_IoBoundDetection ==
    [][\A q \in Queues :
          /\ (~bfqq[q].IO_bound /\ bfqq'[q].IO_bound)
             => /\ TimelyActivation(q)
                /\ bfqq'[q].requests_within_timer
                       = bfqq[q].requests_within_timer + 1
                /\ bfqq'[q].requests_within_timer
                       = bfqd.bfq_requests_within_timer
          /\ (~bfqq[q].IO_bound /\ TimelyActivation(q))
             => /\ bfqq'[q].requests_within_timer
                       = bfqq[q].requests_within_timer + 1
                /\ bfqq'[q].IO_bound
                       = (bfqq'[q].requests_within_timer
                              >= bfqd.bfq_requests_within_timer)
          /\ (~bfqq[q].IO_bound /\ Activates(q) /\ ~TimelyActivation(q))
             => /\ bfqq'[q].requests_within_timer = 0
                /\ ~bfqq'[q].IO_bound
          /\ (bfqq[q].IO_bound /\ ev'.q # 0)
             => /\ bfqq'[q].IO_bound
                /\ bfqq'[q].requests_within_timer
                       = bfqq[q].requests_within_timer]_vars

\* the last activation has brought the count to bfq_requests_within_timer
\* and flagged the queue
C30_Witness ==
    /\ ev.q # 0
    /\ ev.activated
    /\ bfqq[ev.q].IO_bound
    /\ bfqq[ev.q].requests_within_timer = bfqd.bfq_requests_within_timer
    /\ jiffies < bfqq[ev.q].last_end_request + bfqd.bfq_slice_idle

====
